---------------------------- MODULE Spec2Model ----------------------------
(***************************************************************************)
(* Corporate-fleet trip planner and vehicle-report dashboard.              *)
(*                                                                         *)
(*   src/src/components/GoogleMapsRouting.tsx   the trip planner           *)
(*   src/src/utils/getCarCost.ts                car trip cost              *)
(*   src/unnamed/part_000                       the dashboard              *)
(*   src/src/app/api/save-trip/route.ts         the trip log               *)
(*                                                                         *)
(* Text is modelled as TLA+ strings, read character by character, so the   *)
(* parsers and formatters of the program are computed as the code computes *)
(* them.  A JavaScript number is modelled as NaN or an exact rational      *)
(* [nan, n, d] in lowest terms: binary rounding of IEEE doubles is not     *)
(* modelled, and neither are the infinities (no label of the model parses  *)
(* to one and every division of the code is by a non-zero number).         *)
(***************************************************************************)
EXTENDS Integers, Sequences, FiniteSets, TLC

VARIABLES
    \* calculatePublicTransportCost: its arguments and its result
    ptDistance, ptDuration, ptTypes, ptCost,
    \* the car catalog (cars.json) and the selected car: 0 for null, or its place
    \* in the catalog
    carsDatabase, selectedCar,
    \* getCarCost: the trip's car name and distance, the price table, the result
    \* (<<>> before the call)
    tripCarModel, tripDistance, prices, carCost,
    \* calculateCarCost: its result ("" before the call)
    carCostLabel,
    \* calculateRealEmissions: its arguments and its result ("" before the call)
    emFuelType, emSegment, emDistanceKm, emResult,
    \* the clock: what new Date() returns
    now,
    \* isInPeriod: its arguments and its result (<<>> before the call)
    ipTripDate, ipPeriod, ipResult,
    \* the dashboard: the file it fetches (/data/all-trips.json), whether the
    \* fetch has ended, its state trips and filters, and its memo filteredTrips
    \* with the time at which isInPeriod read the clock for it
    publicTrips, loaded, trips, filters, filteredTrips, filteredAt,
    \* whether the department effect reset the driver after the last change
    driverReset,
    \* the planner: the option and the route it shows (<<>> for null), and the
    \* save-trip requests it has made
    selectedTransportOption, routeInfo, requests,
    \* the server: data/last-trip.json and data/all-trips.json
    lastTripFile, allTripsFile,
    \* a field of a trip, and what a parser of the dashboard made of it
    parseInput, parsed,
    \* the trips handed to getTotalCost, the cost of each and their total
    costTrips, tripCosts, totalCost,
    \* the planner: the user (<<>> for null), whether the options are shown, the
    \* durations and costs of the last search, the search that is under way
    \* (<<>> for none) and the calls of calculateRoute whose callback is due
    selectedUser, showOptions, calculatedDurations, calculatedCosts, searching,
    pendingRoutes

fareVars == <<ptDistance, ptDuration, ptTypes, ptCost>>
carVars == <<carsDatabase, selectedCar, tripCarModel, tripDistance, prices, carCost,
             carCostLabel>>
emVars == <<emFuelType, emSegment, emDistanceKm, emResult>>
ipVars == <<ipTripDate, ipPeriod, ipResult>>
dashVars == <<publicTrips, loaded, trips, filters, filteredTrips, filteredAt, driverReset>>
saveVars == <<selectedTransportOption, routeInfo, requests, lastTripFile, allTripsFile>>
parseVars == <<parseInput, parsed>>
totalVars == <<costTrips, tripCosts, totalCost>>
plannerVars == <<selectedUser, showOptions, calculatedDurations, calculatedCosts, searching,
                 pendingRoutes>>
vars == <<fareVars, carVars, emVars, now, ipVars, dashVars, saveVars, parseVars, totalVars,
          plannerVars>>

\* the state outside each part of the program
notFareVars == <<carVars, emVars, now, ipVars, dashVars, saveVars, parseVars, totalVars,
    plannerVars>>
notCarVars == <<fareVars, emVars, now, ipVars, dashVars, saveVars, parseVars, totalVars,
    plannerVars>>
notEmVars == <<fareVars, carVars, now, ipVars, dashVars, saveVars, parseVars, totalVars,
    plannerVars>>
notPeriodVars == <<fareVars, carVars, emVars, dashVars, saveVars, parseVars, totalVars,
    plannerVars>>
notDashVars == <<fareVars, carVars, emVars, ipVars, saveVars, parseVars, totalVars,
    plannerVars>>
notParseVars == <<fareVars, carVars, emVars, ipVars, dashVars, saveVars, totalVars,
    plannerVars>>
\* getTotalCost reads carsDatabase, tripCarModel and prices
notTotalVars == <<fareVars, selectedCar, tripDistance, carCost, carCostLabel, emVars, ipVars, dashVars, saveVars, parseVars,
    plannerVars>>
notSaveVars == <<fareVars, carVars, emVars, ipVars, dashVars, parseVars, totalVars,
    plannerVars>>

----------------------------------------------------------------------------
(* Characters and strings *)

DigitChars == "0123456789"
UpperChars == "ABCDEFGHIJKLMNOPQRSTUVWXYZ"
LowerChars == "abcdefghijklmnopqrstuvwxyz"

CharAt(s, i) == SubSeq(s, i, i)

DigitSet == {CharAt(DigitChars, i) : i \in 1..10}
DigitMap == [c \in DigitSet |-> (CHOOSE i \in 1..10 : CharAt(DigitChars, i) = c) - 1]
UpperSet == {CharAt(UpperChars, i) : i \in 1..26}
LowerMap ==
    [c \in UpperSet |-> CharAt(LowerChars, CHOOSE i \in 1..26 : CharAt(UpperChars, i) = c)]

IsDigit(c) == c \in DigitSet

DigitVal(c) == DigitMap[c]

\* \s of a regular expression and the white space parseFloat skips
IsSpace(c) == c = " "

\* a character of the class [\d.]
IsDigitOrDot(c) == IsDigit(c) \/ c = "."

LowerChar(c) == IF c \in UpperSet THEN LowerMap[c] ELSE c

RECURSIVE ToLowerCase(_)
ToLowerCase(s) ==
    IF Len(s) = 0 THEN "" ELSE LowerChar(Head(s)) \o ToLowerCase(Tail(s))

\* String.prototype.includes
Includes(s, sub) ==
    \E i \in 1..(Len(s) - Len(sub) + 1) : SubSeq(s, i, i + Len(sub) - 1) = sub

\* s has sub at position i
HasAt(s, i, sub) == i + Len(sub) - 1 <= Len(s) /\ SubSeq(s, i, i + Len(sub) - 1) = sub

\* the last position of the run of digits that starts at i
RECURSIVE DigitRunEnd(_, _)
DigitRunEnd(s, i) ==
    IF i < Len(s) /\ IsDigit(CharAt(s, i + 1)) THEN DigitRunEnd(s, i + 1) ELSE i

\* the last position of the run of [\d.] that starts at i
RECURSIVE DotRunEnd(_, _)
DotRunEnd(s, i) ==
    IF i < Len(s) /\ IsDigitOrDot(CharAt(s, i + 1)) THEN DotRunEnd(s, i + 1) ELSE i

\* the first position after i that is not white space
RECURSIVE SkipSpaces(_, _)
SkipSpaces(s, i) ==
    IF i <= Len(s) /\ IsSpace(CharAt(s, i)) THEN SkipSpaces(s, i + 1) ELSE i

----------------------------------------------------------------------------
(* JavaScript numbers *)

RECURSIVE Gcd(_, _)
Gcd(a, b) == IF b = 0 THEN a ELSE Gcd(b, a % b)

Abs(a) == IF a < 0 THEN -a ELSE a

NaN == [nan |-> TRUE, n |-> 0, d |-> 1]

\* n/d in lowest terms, d > 0
Num(n, d) ==
    LET g == Gcd(Abs(n), Abs(d))
        s == IF d < 0 THEN -1 ELSE 1
    IN  [nan |-> FALSE, n |-> s * (n \div g), d |-> s * (d \div g)]

Int2Num(i) == [nan |-> FALSE, n |-> i, d |-> 1]

Zero == Int2Num(0)

JsAdd(a, b) ==
    IF a.nan \/ b.nan THEN NaN
    ELSE LET g == Gcd(a.d, b.d)
         IN  Num(a.n * (b.d \div g) + b.n * (a.d \div g), (a.d \div g) * b.d)

JsMul(a, b) ==
    IF a.nan \/ b.nan THEN NaN
    ELSE LET g1 == Gcd(Abs(a.n), b.d)
             g2 == Gcd(Abs(b.n), a.d)
         IN  Num((a.n \div g1) * (b.n \div g2), (a.d \div g2) * (b.d \div g1))

\* a / b for b # 0 (0 / 0 is NaN; the code never divides a non-zero number by zero)
JsDiv(a, b) ==
    IF a.nan \/ b.nan \/ b.n = 0 THEN NaN
    ELSE JsMul(a, Num(b.d, b.n))

\* comparisons with NaN are false
JsLt(a, b) == ~a.nan /\ ~b.nan /\ a.n * b.d < b.n * a.d
JsLe(a, b) == ~a.nan /\ ~b.nan /\ a.n * b.d <= b.n * a.d
JsGt(a, b) == JsLt(b, a)

\* truthiness of a number: neither NaN nor 0
Truthy(a) == ~a.nan /\ a.n # 0

\* Math.floor, Math.ceil, Math.round (halves go up)
MathFloor(a) == IF a.nan THEN NaN ELSE Int2Num(a.n \div a.d)
MathCeil(a) == IF a.nan THEN NaN ELSE Int2Num(-((-a.n) \div a.d))
MathRound(a) == IF a.nan THEN NaN ELSE Int2Num((2 * a.n + a.d) \div (2 * a.d))

----------------------------------------------------------------------------
(* Numbers to text and text to numbers *)

RECURSIVE NatToString(_)
NatToString(i) ==
    IF i < 10 THEN CharAt(DigitChars, i + 1)
    ELSE NatToString(i \div 10) \o CharAt(DigitChars, (i % 10) + 1)

IntToString(i) == IF i < 0 THEN "-" \o NatToString(-i) ELSE NatToString(i)

\* the value of a run of digits ("" is 0)
RECURSIVE DigitsVal(_)
DigitsVal(s) ==
    IF Len(s) = 0 THEN 0
    ELSE 10 * DigitsVal(SubSeq(s, 1, Len(s) - 1)) + DigitVal(CharAt(s, Len(s)))

RECURSIVE Pow10(_)
Pow10(k) == IF k = 0 THEN 1 ELSE 10 * Pow10(k - 1)

\* the text of a number in a template literal or from toString(): an integer,
\* or a decimal fraction with as many places as it needs
RECURSIVE DecimalPlaces(_, _)
DecimalPlaces(d, k) == IF Pow10(k) % d = 0 THEN k ELSE DecimalPlaces(d, k + 1)

RECURSIVE PadLeft(_, _)
PadLeft(s, k) == IF Len(s) >= k THEN s ELSE PadLeft("0" \o s, k)

NumToString(a) ==
    IF a.nan THEN "NaN"
    ELSE IF a.d = 1 THEN IntToString(a.n)
    ELSE LET k == DecimalPlaces(a.d, 1)
             m == Abs(a.n) * (Pow10(k) \div a.d)
         IN  (IF a.n < 0 THEN "-" ELSE "") \o NatToString(m \div Pow10(k))
                 \o "." \o PadLeft(NatToString(m % Pow10(k)), k)

\* Number.prototype.toFixed(k), k >= 1: rounded to k places, halves away from zero
ToFixed(a, k) ==
    IF a.nan THEN "NaN"
    ELSE LET m == (2 * Abs(a.n) * Pow10(k) + a.d) \div (2 * a.d)
         IN  (IF a.n < 0 /\ m > 0 THEN "-" ELSE "") \o NatToString(m \div Pow10(k))
                 \o "." \o PadLeft(NatToString(m % Pow10(k)), k)

\* parseFloat: white space, a sign, digits, a point, digits; NaN without a digit.
\* (Exponents and "Infinity" are not modelled: no label of the model has them.)
ParseFloat(s) ==
    LET i0 == SkipSpaces(s, 1)
        neg == HasAt(s, i0, "-")
        i1 == IF HasAt(s, i0, "-") \/ HasAt(s, i0, "+") THEN i0 + 1 ELSE i0
        hasInt == i1 <= Len(s) /\ IsDigit(CharAt(s, i1))
        iEnd == IF hasInt THEN DigitRunEnd(s, i1) ELSE i1 - 1
        intPart == SubSeq(s, i1, iEnd)
        hasDot == HasAt(s, iEnd + 1, ".")
        hasFrac == hasDot /\ iEnd + 2 <= Len(s) /\ IsDigit(CharAt(s, iEnd + 2))
        fEnd == IF hasFrac THEN DigitRunEnd(s, iEnd + 2) ELSE iEnd + 1
        fracPart == IF hasFrac THEN SubSeq(s, iEnd + 2, fEnd) ELSE ""
        mag == Num(DigitsVal(intPart) * Pow10(Len(fracPart)) + DigitsVal(fracPart),
                   Pow10(Len(fracPart)))
    IN  IF ~hasInt /\ ~hasFrac THEN NaN
        ELSE IF neg THEN Num(-mag.n, mag.d) ELSE mag

\* parseInt of a run of digits
ParseInt(s) == DigitsVal(s)


----------------------------------------------------------------------------
(* Public transport fare: calculatePublicTransportCost *)

\* the names getTransitTypesFromResponse gives the vehicles of a transit route
TransitKinds == {"Bus", "Train", "Subway", "Tram", "Trolley", "Transit"}

\* the longest list of vehicle kinds of a route of the model
MaxTransitTypes == 2

\* route lengths (metres, as the directions service reports them) and durations
\* (minutes, rounded up) of the model
FareMetres == {0, 333, 1000, 1667, 20000, 33400}
FareMinutes == {0, 1, 29, 30, 31, 89, 90, 91, 240}

\* lists without duplicates (Array.from(new Set(...)))
TransitTypeLists ==
    {t \in UNION {[1..k -> TransitKinds] : k \in 0..MaxTransitTypes} :
        \A i, j \in DOMAIN t : i # j => t[i] # t[j]}

calculatePublicTransportCost_boundary(distance, durationMinutes, transitTypes) ==
    LET hasTrainService ==
            \E i \in DOMAIN transitTypes :
                \/ Includes(ToLowerCase(transitTypes[i]), "train")
                \/ Includes(ToLowerCase(transitTypes[i]), "rail")
    IN  IF hasTrainService
        THEN NumToString(MathRound(JsMul(distance, Num(15, 10)))) \o " CZK"
        ELSE IF durationMinutes <= 30 THEN "30 CZK"
        ELSE IF durationMinutes <= 90 THEN "40 CZK"
        ELSE "120 CZK"

calculatePublicTransportCost(distance, durationMinutes, transitTypes) ==
    LET hasTrainService ==
            \E i \in DOMAIN transitTypes :
                \/ Includes(ToLowerCase(transitTypes[i]), "train")
                \/ Includes(ToLowerCase(transitTypes[i]), "rail")
    IN  IF hasTrainService
        THEN NumToString(MathRound(JsMul(distance, Num(15, 10)))) \o " CZK"
        ELSE IF durationMinutes < 30 THEN "30 CZK"
        ELSE IF durationMinutes <= 90 THEN "40 CZK"
        ELSE "120 CZK"

----------------------------------------------------------------------------
(* Car trip cost: getCarCost.ts and calculateCarCost *)

czFuelPrices ==
    [ft \in {"Petrol", "Diesel", "Hybrid", "Plug-in Hybrid Electric Vehicle",
             "Battery Electric Vehicle"} |->
        CASE ft = "Petrol" -> Num(3371, 100)
          [] ft = "Diesel" -> Num(3224, 100)
          [] ft = "Hybrid" -> Num(3371, 100)
          [] ft = "Plug-in Hybrid Electric Vehicle" -> Num(3371, 100)
          [] ft = "Battery Electric Vehicle" -> Num(1500, 100)]

\* the first match of /([\d.]+)/ in s, "" when there is none
RECURSIVE FirstDotRunFrom(_, _)
FirstDotRunFrom(s, i) ==
    IF i > Len(s) THEN ""
    ELSE IF IsDigitOrDot(CharAt(s, i)) THEN SubSeq(s, i, DotRunEnd(s, i))
    ELSE FirstDotRunFrom(s, i + 1)

FirstDotRun(s) == FirstDotRunFrom(s, 1)

parseEfficiencyValue(eff) ==
    LET match == FirstDotRun(eff)
    IN  IF match # "" THEN ParseFloat(match) ELSE NaN

\* cars.find(c => `${c.brand} ${c.model}`.toLowerCase() === carModel.toLowerCase()):
\* the place of the first such car, 0 when there is none
FindCar(cars, carModel) ==
    LET hits == {i \in DOMAIN cars :
                    ToLowerCase(cars[i].brand \o " " \o cars[i].model)
                        = ToLowerCase(carModel)}
    IN  IF hits = {} THEN 0 ELSE CHOOSE i \in hits : \A j \in hits : i <= j

\* prices[fuelType] ?? 0
UnitPrice(priceTable, fuelType) ==
    IF fuelType \in DOMAIN priceTable THEN priceTable[fuelType] ELSE Zero

getCarCost_defaults(trip, cars, priceTable) ==
    LET distanceKm == ParseFloat(trip.distance)
        car == FindCar(cars, trip.carModel)
        eff == parseEfficiencyValue(cars[car].efficiency)
        unitPrice == UnitPrice(priceTable, cars[car].fuelType)
        tripCost == JsMul(JsMul(distanceKm, JsDiv(eff, Int2Num(100))), unitPrice)
    IN  IF ~Truthy(distanceKm) THEN Zero
        ELSE IF car = 0 THEN Zero
        ELSE IF ~Truthy(eff) THEN Int2Num(1)
        ELSE IF ~Truthy(unitPrice) THEN Int2Num(1)
        ELSE JsDiv(MathRound(JsMul(tripCost, Int2Num(100))), Int2Num(100))

getCarCost_truncates(trip, cars, priceTable) ==
    LET distanceKm == ParseFloat(trip.distance)
        car == FindCar(cars, trip.carModel)
        eff == parseEfficiencyValue(cars[car].efficiency)
        unitPrice == UnitPrice(priceTable, cars[car].fuelType)
        tripCost == JsMul(JsMul(distanceKm, JsDiv(eff, Int2Num(100))), unitPrice)
    IN  IF ~Truthy(distanceKm) THEN Zero
        ELSE IF car = 0 THEN Zero
        ELSE IF ~Truthy(eff) THEN Zero
        ELSE IF ~Truthy(unitPrice) THEN Zero
        ELSE JsDiv(MathFloor(JsMul(tripCost, Int2Num(100))), Int2Num(100))

getCarCost_minimumCharge(trip, cars, priceTable) ==
    LET distanceKm == ParseFloat(trip.distance)
        car == FindCar(cars, trip.carModel)
        eff == parseEfficiencyValue(cars[car].efficiency)
        unitPrice == UnitPrice(priceTable, cars[car].fuelType)
        tripCost == JsMul(JsMul(distanceKm, JsDiv(eff, Int2Num(100))), unitPrice)
    IN  IF ~Truthy(distanceKm) THEN Zero
        ELSE IF car = 0 THEN Zero
        ELSE IF ~Truthy(eff) THEN Zero
        ELSE IF ~Truthy(unitPrice) THEN Zero
        ELSE IF JsLt(distanceKm, Int2Num(1)) THEN Int2Num(50)
        ELSE JsDiv(MathRound(JsMul(tripCost, Int2Num(100))), Int2Num(100))

getCarCost_wholeCrowns(trip, cars, priceTable) ==
    LET distanceKm == ParseFloat(trip.distance)
        car == FindCar(cars, trip.carModel)
        eff == parseEfficiencyValue(cars[car].efficiency)
        unitPrice == UnitPrice(priceTable, cars[car].fuelType)
        tripCost == JsMul(JsMul(distanceKm, JsDiv(eff, Int2Num(100))), unitPrice)
    IN  IF ~Truthy(distanceKm) THEN Zero
        ELSE IF car = 0 THEN Zero
        ELSE IF ~Truthy(eff) THEN Zero
        ELSE IF ~Truthy(unitPrice) THEN Zero
        ELSE MathRound(tripCost)

\* trip.distance is the string form of the interface (string | number)
getCarCost(trip, cars, priceTable) ==
    LET distanceKm == ParseFloat(trip.distance)
        car == FindCar(cars, trip.carModel)
        eff == parseEfficiencyValue(cars[car].efficiency)
        unitPrice == UnitPrice(priceTable, cars[car].fuelType)
        tripCost == JsMul(JsMul(distanceKm, JsDiv(eff, Int2Num(100))), unitPrice)
    IN  IF ~Truthy(distanceKm) THEN Zero
        ELSE IF car = 0 THEN Zero
        ELSE IF ~Truthy(eff) THEN Zero
        ELSE IF ~Truthy(unitPrice) THEN Zero
        ELSE JsDiv(MathRound(JsMul(tripCost, Int2Num(100))), Int2Num(100))

\* trips.reduce((sum, t) => sum + getCarCost(t, cars, prices), 0), over the
\* first k trips
RECURSIVE TotalCostOf(_, _, _, _)
TotalCostOf(tripList, cars, priceTable, k) ==
    IF k = 0 THEN Zero
    ELSE JsAdd(TotalCostOf(tripList, cars, priceTable, k - 1),
               getCarCost(tripList[k], cars, priceTable))

getTotalCost(tripList, cars, priceTable) ==
    TotalCostOf(tripList, cars, priceTable, Len(tripList))

\* calculateCarCost with the component's selectedCar and carsDatabase
calculateCarCost(car, cars, distanceKm) ==
    IF car = 0 \/ Len(cars) = 0 \/ JsLe(distanceKm, Zero) THEN "N/A"
    ELSE LET trip == [carModel |-> cars[car].brand \o " " \o cars[car].model,
                      distance |-> NumToString(distanceKm)]
             cost == getCarCost(trip, cars, czFuelPrices)
         IN  IF JsGt(cost, Zero) THEN NumToString(MathRound(cost)) \o " CZK"
             ELSE "N/A"

----------------------------------------------------------------------------
(* Car trip emissions: emissionFactors and calculateRealEmissions *)

FuelTypes ==
    {"Diesel", "Petrol", "Hybrid", "Plug-in Hybrid Electric Vehicle",
     "Battery Electric Vehicle"}

MarketSegments == {"Small car", "Medium car", "Large car", "Average car"}

\* kg CO2 per km, in hundred-thousandths
FactorE5(segment, fuelType) ==
    CASE segment = "Small car" ->
            (CASE fuelType = "Diesel" -> 13994
               [] fuelType = "Petrol" -> 14370
               [] fuelType = "Hybrid" -> 11274
               [] fuelType = "Plug-in Hybrid Electric Vehicle" -> 3012
               [] fuelType = "Battery Electric Vehicle" -> 0)
      [] segment = "Medium car" ->
            (CASE fuelType = "Diesel" -> 16807
               [] fuelType = "Petrol" -> 17726
               [] fuelType = "Hybrid" -> 11490
               [] fuelType = "Plug-in Hybrid Electric Vehicle" -> 8120
               [] fuelType = "Battery Electric Vehicle" -> 0)
      [] segment = "Large car" ->
            (CASE fuelType = "Diesel" -> 20729
               [] fuelType = "Petrol" -> 26885
               [] fuelType = "Hybrid" -> 15486
               [] fuelType = "Plug-in Hybrid Electric Vehicle" -> 10306
               [] fuelType = "Battery Electric Vehicle" -> 0)
      [] segment = "Average car" ->
            (CASE fuelType = "Diesel" -> 16984
               [] fuelType = "Petrol" -> 16450
               [] fuelType = "Hybrid" -> 12607
               [] fuelType = "Plug-in Hybrid Electric Vehicle" -> 9360
               [] fuelType = "Battery Electric Vehicle" -> 0)

emissionFactors_gridElectricity ==
    [segment \in MarketSegments |->
        [fuelType \in FuelTypes |->
            IF fuelType = "Battery Electric Vehicle" THEN Num(5300, 100000)
            ELSE Num(FactorE5(segment, fuelType), 100000)]]

emissionFactors ==
    [segment \in MarketSegments |->
        [fuelType \in FuelTypes |-> Num(FactorE5(segment, fuelType), 100000)]]

calculateRealEmissions_guess(fuelType, marketSegment, distanceKm) ==
    LET segment == IF marketSegment \in DOMAIN emissionFactors
                   THEN marketSegment ELSE "Average car"
    IN  IF fuelType \in DOMAIN emissionFactors[segment]
        THEN ToFixed(JsMul(emissionFactors[segment][fuelType], distanceKm), 1)
                 \o "kg CO₂"
        ELSE "N/A"

\* both branches of totalEmissionsKg < 1 format the same way
calculateRealEmissions(fuelType, marketSegment, distanceKm) ==
    IF marketSegment \in DOMAIN emissionFactors
    THEN IF fuelType \in DOMAIN emissionFactors[marketSegment]
         THEN LET totalEmissionsKg ==
                      JsMul(emissionFactors[marketSegment][fuelType], distanceKm)
              IN  IF JsLt(totalEmissionsKg, Int2Num(1))
                  THEN ToFixed(totalEmissionsKg, 1) \o "kg CO₂"
                  ELSE ToFixed(totalEmissionsKg, 1) \o "kg CO₂"
         ELSE "N/A"
    ELSE "N/A"

----------------------------------------------------------------------------
(* Dates.  A Date is an instant of local time, counted in ticks since       *)
(* 1 January of EpochYear, or InvalidDate (new Date of a text that is no    *)
(* date).  Months count from 0 as in JavaScript.                            *)

\* the ticks of a day: the grain of the clock
TicksPerDay == 3

EpochYear == 2024

InvalidDate == -1

IsLeapYear(y) == (y % 4 = 0 /\ y % 100 # 0) \/ y % 400 = 0

DaysInYear(y) == IF IsLeapYear(y) THEN 366 ELSE 365

DaysInMonth(y, m) ==
    IF m = 1 THEN (IF IsLeapYear(y) THEN 29 ELSE 28)
    ELSE IF m \in {3, 5, 8, 10} THEN 30
    ELSE 31

RECURSIVE DaysBeforeYear(_)
DaysBeforeYear(y) ==
    IF y <= EpochYear THEN 0 ELSE DaysBeforeYear(y - 1) + DaysInYear(y - 1)

RECURSIVE DaysBeforeMonth(_, _)
DaysBeforeMonth(y, m) ==
    IF m = 0 THEN 0 ELSE DaysBeforeMonth(y, m - 1) + DaysInMonth(y, m - 1)

\* new Date(year, month, date): midnight of that day; a date outside the month
\* counts on into the neighbouring months
NewDate(year, month, date) ==
    (DaysBeforeYear(year) + DaysBeforeMonth(year, month) + date - 1) * TicksPerDay

RECURSIVE YearOfDay(_, _)
YearOfDay(day, y) ==
    IF day < DaysInYear(y) THEN y ELSE YearOfDay(day - DaysInYear(y), y + 1)

RECURSIVE MonthOfDay(_, _, _)
MonthOfDay(dayOfYear, y, m) ==
    IF dayOfYear < DaysInMonth(y, m) THEN m
    ELSE MonthOfDay(dayOfYear - DaysInMonth(y, m), y, m + 1)

\* getFullYear, getMonth, getDate of a valid Date
getFullYear(t) == YearOfDay(t \div TicksPerDay, EpochYear)

getMonth(t) ==
    MonthOfDay((t \div TicksPerDay) - DaysBeforeYear(getFullYear(t)), getFullYear(t), 0)

getDate(t) ==
    (t \div TicksPerDay) - DaysBeforeYear(getFullYear(t))
        - DaysBeforeMonth(getFullYear(t), getMonth(t)) + 1

\* isInPeriod with what its new Date() returns.  The getters of an invalid Date
\* give NaN, and every comparison with NaN is false.
isInPeriod(tripDate, period, clock) ==
    LET today == NewDate(getFullYear(clock), getMonth(clock), getDate(clock))
    IN  IF tripDate = InvalidDate THEN period \notin {"Today", "Week", "Month", "Year"}
        ELSE CASE period = "Today" ->
                    NewDate(getFullYear(tripDate), getMonth(tripDate), getDate(tripDate))
                        = today
               [] period = "Week" ->
                    LET weekAgo == NewDate(getFullYear(today), getMonth(today),
                                           getDate(today) - 7)
                    IN  tripDate >= weekAgo /\ tripDate <= clock
               [] period = "Month" ->
                    /\ getMonth(tripDate) = getMonth(clock)
                    /\ getFullYear(tripDate) = getFullYear(clock)
               [] period = "Year" -> getFullYear(tripDate) = getFullYear(clock)
               [] OTHER -> TRUE

Periods == {"Today", "Week", "Month", "Year"}

----------------------------------------------------------------------------
(* Dashboard: trips, filters and the filtered trips *)

\* a TripRecord, with the fields the dashboard reads and transportType, which
\* it does not read.  tripTimestamp is carried as new Date(trip.tripTimestamp):
\* the instant the text denotes, or InvalidDate.
TripRecord(userId, userDepartment, carModel, carEfficiency, distance, duration, co2Emissions, transportType, cost, tripTimestamp) ==
    [userId |-> userId, userDepartment |-> userDepartment, carModel |-> carModel,
     carEfficiency |-> carEfficiency, distance |-> distance, duration |-> duration,
     co2Emissions |-> co2Emissions, transportType |-> transportType, cost |-> cost,
     tripTimestamp |-> tripTimestamp]

InitialFilters ==
    [period |-> "Today", department |-> "", driverName |-> "", carModel |-> ""]

TripFilter_anyModel(trip, fl, clock) ==
    IF ~isInPeriod(trip.tripTimestamp, fl.period, clock) THEN FALSE
    ELSE IF fl.department # "" /\ trip.userDepartment # fl.department THEN FALSE
    ELSE IF fl.driverName # "" /\ trip.userId # fl.driverName THEN FALSE
    ELSE TRUE

\* the callback of trips.filter, called when the clock shows clock
TripFilter(trip, fl, clock) ==
    IF ~isInPeriod(trip.tripTimestamp, fl.period, clock) THEN FALSE
    ELSE IF fl.department # "" /\ trip.userDepartment # fl.department THEN FALSE
    ELSE IF fl.driverName # "" /\ trip.userId # fl.driverName THEN FALSE
    ELSE IF fl.carModel # "" /\ trip.carModel # fl.carModel THEN FALSE
    ELSE TRUE

\* the memo filteredTrips
RECURSIVE FilteredTrips(_, _, _)
FilteredTrips(tr, fl, clock) ==
    IF tr = <<>> THEN <<>>
    ELSE (IF TripFilter(Head(tr), fl, clock) THEN <<Head(tr)>> ELSE <<>>)
            \o FilteredTrips(Tail(tr), fl, clock)

\* the options of the three dropdowns (the order of the options is left out)
uniqueDepartments(tr) == {tr[i].userDepartment : i \in DOMAIN tr}

uniqueCarModels(tr, fl) ==
    LET relevantTrips ==
            {i \in DOMAIN tr :
                /\ fl.department # "" => tr[i].userDepartment = fl.department
                /\ fl.driverName # "" => tr[i].userId = fl.driverName}
    IN  {tr[i].carModel : i \in relevantTrips}

uniqueUserIds(tr, fl) ==
    LET relevantTrips ==
            {i \in DOMAIN tr : fl.department # "" => tr[i].userDepartment = fl.department}
    IN  {tr[i].userId : i \in relevantTrips}

DepartmentEffect_keepsModel(tr, fl, prev) ==
    LET deptTrips == {i \in DOMAIN tr : tr[i].userDepartment = fl.department}
        deptUniqueUserIds == {tr[i].userId : i \in deptTrips}
    IN  IF fl.department # "" /\ fl.driverName # ""
            /\ fl.driverName \notin deptUniqueUserIds
        THEN [prev EXCEPT !.driverName = ""]
        ELSE prev

\* the effect on [filters.department, trips]: run in a render that shows fl, it
\* turns the filters prev into these
DepartmentEffect(tr, fl, prev) ==
    LET deptTrips == {i \in DOMAIN tr : tr[i].userDepartment = fl.department}
        deptUniqueUserIds == {tr[i].userId : i \in deptTrips}
    IN  IF fl.department # "" /\ fl.driverName # ""
            /\ fl.driverName \notin deptUniqueUserIds
        THEN [prev EXCEPT !.driverName = "", !.carModel = ""]
        ELSE prev

\* the effect on [filters.driverName, trips]
DriverEffect(tr, fl, prev) ==
    LET userTrips == {i \in DOMAIN tr : tr[i].userId = fl.driverName}
        userUniqueCarModels == {tr[i].carModel : i \in userTrips}
    IN  IF fl.driverName # "" /\ fl.carModel # ""
            /\ fl.carModel \notin userUniqueCarModels
        THEN [prev EXCEPT !.carModel = ""]
        ELSE prev

\* the filters once the effects have run: after a render that turned the
\* filters before into after (tripsChanged: it also replaced trips), each
\* effect runs if one of its dependencies changed, the updates are applied in
\* the order they were queued, and the result is rendered in its turn
RECURSIVE RunEffects(_, _, _, _)
RunEffects(tr, before, after, tripsChanged) ==
    LET p1 == IF tripsChanged \/ before.department # after.department
              THEN DepartmentEffect(tr, after, after) ELSE after
        p2 == IF tripsChanged \/ before.driverName # after.driverName
              THEN DriverEffect(tr, after, p1) ELSE p1
    IN  IF p2 = after THEN after ELSE RunEffects(tr, after, p2, FALSE)

----------------------------------------------------------------------------
(* Dashboard: the parsers of the fields of a trip *)

parseDistance(distance) ==
    LET v == ParseFloat(distance) IN IF Truthy(v) THEN v ELSE Zero

\* the group of the first match of /(\d+)h/ from i on, "" without a match
RECURSIVE HourMatchFrom(_, _)
HourMatchFrom(s, i) ==
    IF i > Len(s) THEN ""
    ELSE IF IsDigit(CharAt(s, i))
         THEN IF HasAt(s, DigitRunEnd(s, i) + 1, "h")
              THEN SubSeq(s, i, DigitRunEnd(s, i))
              ELSE HourMatchFrom(s, DigitRunEnd(s, i) + 1)
         ELSE HourMatchFrom(s, i + 1)

\* the group of the first match of /(\d+)\s*min/ from i on
RECURSIVE MinMatchFrom(_, _)
MinMatchFrom(s, i) ==
    IF i > Len(s) THEN ""
    ELSE IF IsDigit(CharAt(s, i))
         THEN IF HasAt(s, SkipSpaces(s, DigitRunEnd(s, i) + 1), "min")
              THEN SubSeq(s, i, DigitRunEnd(s, i))
              ELSE MinMatchFrom(s, DigitRunEnd(s, i) + 1)
         ELSE MinMatchFrom(s, i + 1)

parseDuration_minutes(duration) ==
    LET hourMatch == HourMatchFrom(duration, 1)
        minMatch == MinMatchFrom(duration, 1)
        hours == IF hourMatch # "" THEN ParseInt(hourMatch) ELSE 0
        minutes == IF minMatch # "" THEN ParseInt(minMatch) ELSE 0
    IN  Int2Num(hours * 60 + minutes)

\* seconds
parseDuration(duration) ==
    LET hourMatch == HourMatchFrom(duration, 1)
        minMatch == MinMatchFrom(duration, 1)
        hours == IF hourMatch # "" THEN ParseInt(hourMatch) ELSE 0
        minutes == IF minMatch # "" THEN ParseInt(minMatch) ELSE 0
    IN  Int2Num((hours * 60 + minutes) * 60)

\* kilograms
parseCO2(co2) ==
    LET match == FirstDotRun(co2)
    IN  IF match # ""
        THEN IF Includes(co2, "kg") THEN ParseFloat(match)
             ELSE JsDiv(ParseFloat(match), Int2Num(1000))
        ELSE Zero

\* CZK
parseCost(cost) ==
    LET match == FirstDotRun(cost)
    IN  IF match # ""
        THEN IF Includes(cost, "$") THEN JsMul(ParseFloat(match), Int2Num(23))
             ELSE ParseFloat(match)
        ELSE Zero

\* the group of the first match of /([\d.]+)L/ from i on
RECURSIVE LitreMatchFrom(_, _)
LitreMatchFrom(s, i) ==
    IF i > Len(s) THEN ""
    ELSE IF IsDigitOrDot(CharAt(s, i))
         THEN IF HasAt(s, DotRunEnd(s, i) + 1, "L")
              THEN SubSeq(s, i, DotRunEnd(s, i))
              ELSE LitreMatchFrom(s, DotRunEnd(s, i) + 1)
         ELSE LitreMatchFrom(s, i + 1)

\* L/100km
getFuelConsumption(carModel, carEfficiency) ==
    LET match == LitreMatchFrom(carEfficiency, 1)
    IN  IF match # "" THEN ParseFloat(match) ELSE Num(13, 2)

----------------------------------------------------------------------------
(* Dashboard: metrics *)

\* reduce((sum, x) => sum + x, 0) over a list of numbers
RECURSIVE SumOf(_)
SumOf(xs) == IF xs = <<>> THEN Zero ELSE JsAdd(SumOf(SubSeq(xs, 1, Len(xs) - 1)), xs[Len(xs)])

NoDataMetrics ==
    [totalDistance |-> Zero, totalFuelLiters |-> Zero, avgFuelPer100km |-> Zero,
     totalDurationSeconds |-> Zero, totalCostCZK |-> Zero, totalCO2kg |-> Zero,
     avgCO2PerKm |-> Zero, avgSpeed |-> Zero, costPerKm |-> Zero,
     treesToOffset |-> Zero, carbonFootprintRating |-> "No Data",
     fuelEfficiencyRating |-> "No Data", emissionLevel |-> "No Data"]

carbonFootprintRating_unrated(totalCO2kg) ==
    IF totalCO2kg.nan THEN "No Data"
    ELSE IF JsLt(totalCO2kg, Int2Num(100)) THEN "Low"
    ELSE IF JsLt(totalCO2kg, Int2Num(500)) THEN "Moderate"
    ELSE "High"

carbonFootprintRating(totalCO2kg) ==
    IF JsLt(totalCO2kg, Int2Num(100)) THEN "Low"
    ELSE IF JsLt(totalCO2kg, Int2Num(500)) THEN "Moderate"
    ELSE "High"

fuelEfficiencyRating(avgFuelPer100km) ==
    IF JsLe(avgFuelPer100km, Int2Num(6)) THEN "Good"
    ELSE IF JsLe(avgFuelPer100km, Int2Num(8)) THEN "Moderate"
    ELSE "Poor"

emissionLevel_exclusive(avgCO2PerKm) ==
    IF JsLt(avgCO2PerKm, Int2Num(50)) THEN "Excellent"
    ELSE IF JsLt(avgCO2PerKm, Int2Num(100)) THEN "Good"
    ELSE IF JsLt(avgCO2PerKm, Int2Num(150)) THEN "Moderate"
    ELSE IF JsLt(avgCO2PerKm, Int2Num(200)) THEN "High"
    ELSE "Very High"

emissionLevel(avgCO2PerKm) ==
    IF JsLe(avgCO2PerKm, Int2Num(50)) THEN "Excellent"
    ELSE IF JsLe(avgCO2PerKm, Int2Num(100)) THEN "Good"
    ELSE IF JsLe(avgCO2PerKm, Int2Num(150)) THEN "Moderate"
    ELSE IF JsLe(avgCO2PerKm, Int2Num(200)) THEN "High"
    ELSE "Very High"

\* the totals of a non-empty list of trips
totalDistance(ft) == SumOf([i \in DOMAIN ft |-> parseDistance(ft[i].distance)])

totalDurationSeconds(ft) == SumOf([i \in DOMAIN ft |-> parseDuration(ft[i].duration)])

totalCO2kg(ft) == SumOf([i \in DOMAIN ft |-> parseCO2(ft[i].co2Emissions)])

totalCostCZK(ft) == SumOf([i \in DOMAIN ft |-> parseCost(ft[i].cost)])

totalFuelLiters_fleetAverage(ft) ==
    JsDiv(JsMul(SumOf([i \in DOMAIN ft |-> parseDistance(ft[i].distance)]),
                JsDiv(SumOf([i \in DOMAIN ft |->
                                getFuelConsumption(ft[i].carModel, ft[i].carEfficiency)]),
                      Int2Num(Len(ft)))),
          Int2Num(100))

totalFuelLiters(ft) ==
    SumOf([i \in DOMAIN ft |->
            JsDiv(JsMul(parseDistance(ft[i].distance),
                        getFuelConsumption(ft[i].carModel, ft[i].carEfficiency)),
                  Int2Num(100))])

\* the rates and the trees, from the totals
avgFuelPer100km_unguarded(fuelLiters, distance) ==
    JsMul(JsDiv(fuelLiters, distance), Int2Num(100))

avgFuelPer100km(fuelLiters, distance) ==
    IF JsGt(distance, Zero)
    THEN JsMul(JsDiv(fuelLiters, distance), Int2Num(100))
    ELSE Zero

avgCO2PerKm(co2kg, distance) ==
    IF JsGt(distance, Zero)
    THEN JsDiv(JsMul(co2kg, Int2Num(1000)), distance)
    ELSE Zero

avgSpeed(distance, durationSeconds) ==
    IF JsGt(durationSeconds, Zero)
    THEN JsDiv(distance, JsDiv(durationSeconds, Int2Num(3600)))
    ELSE Zero

costPerKm(costCZK, distance) ==
    IF JsGt(distance, Zero) THEN JsDiv(costCZK, distance) ELSE Zero

treesToOffset(co2kg) == MathCeil(JsDiv(co2kg, Int2Num(21)))

\* what useMemo computes for metrics from the filtered trips ft (emissionColor,
\* which follows emissionLevel, is left out); each total is computed once and
\* bound to its name, as the consts of the code
Metrics(ft) ==
    IF Len(ft) = 0 THEN NoDataMetrics
    ELSE CHOOSE m \in
            {[totalDistance |-> distance,
              totalFuelLiters |-> fuelLiters,
              avgFuelPer100km |-> avgFuelPer100km(fuelLiters, distance),
              totalDurationSeconds |-> durationSeconds,
              totalCostCZK |-> costCZK,
              totalCO2kg |-> co2kg,
              avgCO2PerKm |-> avgCO2PerKm(co2kg, distance),
              avgSpeed |-> avgSpeed(distance, durationSeconds),
              costPerKm |-> costPerKm(costCZK, distance),
              treesToOffset |-> treesToOffset(co2kg),
              carbonFootprintRating |-> carbonFootprintRating(co2kg),
              fuelEfficiencyRating |-> fuelEfficiencyRating(
                  avgFuelPer100km(fuelLiters, distance)),
              emissionLevel |-> emissionLevel(avgCO2PerKm(co2kg, distance))] :
                distance \in {totalDistance(ft)},
                durationSeconds \in {totalDurationSeconds(ft)},
                co2kg \in {totalCO2kg(ft)},
                costCZK \in {totalCostCZK(ft)},
                fuelLiters \in {totalFuelLiters(ft)}} : TRUE

\* the memo metrics: it depends on filteredTrips alone and is computed anew
\* whenever filteredTrips is
metrics == Metrics(filteredTrips)

----------------------------------------------------------------------------
(* Saving a trip: the Let's Ride button and POST /api/save-trip *)

\* a file: absent, holding the JSON the handler wrote, or holding text that is
\* no JSON (what a write that failed half-way leaves behind)
AbsentFile == [state |-> "absent", content |-> <<>>]

JsonFile(content) == [state |-> "json", content |-> content]

GarbledFile == [state |-> "garbled", content |-> <<>>]

\* the record the button sends: user is selectedUser, car the place of
\* selectedCar in cars (0 for null), route is routeInfo and option is
\* selectedTransportOption.  (The places and the scheduled time of the trip,
\* which the record carries along unread, are left out.)
tripData(user, car, cars, route, option) ==
    [userId |-> IF user # <<>> /\ user[1].userId # "" THEN user[1].userId ELSE "guest",
     userDepartment |-> IF user # <<>> THEN user[1].department ELSE "",
     userFuelType |-> IF user # <<>> THEN user[1].fuelType ELSE "",
     userMarketSegment |-> IF user # <<>> THEN user[1].marketSegment ELSE "",
     carBrand |-> IF car # 0 THEN cars[car].brand ELSE "",
     carModel |-> IF car # 0 THEN cars[car].model ELSE "",
     carFuelType |-> IF car # 0 THEN cars[car].fuelType ELSE "",
     carEfficiency |-> IF car # 0 THEN cars[car].efficiency ELSE "",
     distance |-> route.distance,
     duration |-> route.duration,
     co2Emissions |-> IF car # 0
                      THEN calculateRealEmissions(cars[car].fuelType, cars[car].marketSegment,
                                                  ParseFloat(route.distance))
                      ELSE "N/A",
     transportType |-> option.type,
     cost |-> option.cost,
     tripTimestamp |-> ""]

\* a request that has not been made
NoRequest == [client |-> "idle", server |-> "none", body |-> <<>>, result |-> "", alert |-> ""]

onClickResult_clearsSelection(outcome, option, route) ==
    [alert |-> CASE outcome = "success" -> "Trip saved!"
                 [] outcome = "failed" -> "Failed to save trip."
                 [] OTHER -> "Error saving trip.",
     selectedTransportOption |-> IF outcome = "success" THEN option ELSE <<>>,
     routeInfo |-> IF outcome = "success" THEN route ELSE <<>>]

\* what the click handler does once the fetch has ended: with the answer's
\* success flag ("success", "failed"), or with an exception ("threw")
onClickResult(outcome, option, route) ==
    [alert |-> CASE outcome = "success" -> "Trip saved!"
                 [] outcome = "failed" -> "Failed to save trip."
                 [] OTHER -> "Error saving trip.",
     selectedTransportOption |-> option,
     routeInfo |-> route]

\* the handler's allTrips after it has read all-trips.json
ReadAllTrips(file) == IF file.state = "json" THEN file.content ELSE <<>>

\* the files after the handler's synchronous part, which runs from the arrival
\* of the body to the answer without giving way to another request.  It ends
\*   "saved":       with both files written;
\*   "early":       with an exception before anything is written;
\*   "partialLast": with an exception while last-trip.json is being written;
\*   "between":     with an exception after last-trip.json is written and
\*                  before all-trips.json is opened for writing;
\*   "partialAll":  with an exception while all-trips.json is being written.
POST(body, clock, lastTrip, allTrips, ending) ==
    LET tripRecord == [body EXCEPT !.tripTimestamp = clock]
    IN  CASE ending = "saved" ->
                [success |-> TRUE,
                 lastTripFile |-> JsonFile(<<tripRecord>>),
                 allTripsFile |-> JsonFile(Append(ReadAllTrips(allTrips), tripRecord))]
          [] ending = "early" ->
                [success |-> FALSE, lastTripFile |-> lastTrip, allTripsFile |-> allTrips]
          [] ending = "partialLast" ->
                [success |-> FALSE, lastTripFile |-> GarbledFile, allTripsFile |-> allTrips]
          [] ending = "between" ->
                [success |-> FALSE,
                 lastTripFile |-> JsonFile(<<tripRecord>>),
                 allTripsFile |-> allTrips]
          [] ending = "partialAll" ->
                [success |-> FALSE,
                 lastTripFile |-> JsonFile(<<tripRecord>>),
                 allTripsFile |-> GarbledFile]

Endings == {"saved", "early", "partialLast", "between", "partialAll"}

----------------------------------------------------------------------------
(* The planner: the label of a duration *)

\* minutes is a whole number of minutes (Math.ceil of the seconds / 60)
formatDuration(minutes) ==
    IF minutes < 60 THEN NatToString(minutes) \o " minutes"
    ELSE LET hours == minutes \div 60
             remainingMinutes == minutes % 60
         IN  IF remainingMinutes = 0
             THEN NatToString(hours) \o " hour" \o (IF hours > 1 THEN "s" ELSE "")
             ELSE NatToString(hours) \o "h " \o NatToString(remainingMinutes) \o " min"

----------------------------------------------------------------------------
(* The planner: transport options, searches and routes *)

TravelModes == {"DRIVING", "TRANSIT", "WALKING"}

isEcoFriendly_hybridOnly(car, cars) ==
    IF car # 0 THEN Includes(cars[car].fuelType, "Hybrid") ELSE FALSE

\* isEcoFriendly of the driving option
isEcoFriendly(car, cars) ==
    IF car # 0
    THEN Includes(cars[car].fuelType, "Electric") \/ cars[car].fuelType = "Hybrid"
    ELSE FALSE

\* the three options as a render computes them: car is the place of selectedCar
\* in cars (0 for null), route is routeInfo, durations and costs are
\* calculatedDurations and calculatedCosts.  (Icons and colours are left out.)
transportOptions(car, cars, route, durations, costs) ==
    [mode \in TravelModes |->
        CASE mode = "DRIVING" ->
                [id |-> "1", type |-> "By car",
                 time |-> IF "DRIVING" \in DOMAIN durations THEN durations["DRIVING"]
                          ELSE "25 minutes",
                 cost |-> IF route # <<>>
                          THEN calculateCarCost(car, cars, ParseFloat(route[1].distance))
                          ELSE "150 CZK",
                 emissions |-> IF car # 0 /\ route # <<>>
                               THEN calculateRealEmissions(cars[car].fuelType,
                                        cars[car].marketSegment, ParseFloat(route[1].distance))
                               ELSE "1.2kg CO₂",
                 isEcoFriendly |-> isEcoFriendly(car, cars),
                 travelMode |-> "DRIVING"]
          [] mode = "TRANSIT" ->
                [id |-> "2", type |-> "Public transport",
                 time |-> IF "TRANSIT" \in DOMAIN durations THEN durations["TRANSIT"]
                          ELSE "45 minutes",
                 cost |-> IF "TRANSIT" \in DOMAIN costs THEN costs["TRANSIT"] ELSE "30 CZK",
                 emissions |-> "0.3kg CO₂",
                 isEcoFriendly |-> TRUE,
                 travelMode |-> "TRANSIT"]
          [] mode = "WALKING" ->
                [id |-> "3", type |-> "Walking",
                 time |-> IF "WALKING" \in DOMAIN durations THEN durations["WALKING"]
                          ELSE "75 minutes",
                 cost |-> "0 CZK",
                 emissions |-> "0kg CO₂",
                 isEcoFriendly |-> TRUE,
                 travelMode |-> "WALKING"]]

\* the default car: the Golf GTE, else the first car of the catalog
DefaultCar(cars) ==
    LET golf == {i \in DOMAIN cars : cars[i].brand = "Volkswagen" /\ cars[i].model = "Golf GTE"}
    IN  IF golf # {} THEN CHOOSE i \in golf : \A j \in golf : i <= j
        ELSE IF Len(cars) > 0 THEN 1 ELSE 0

\* Math.ceil(leg.duration.value / 60)
DurMin(leg) == MathCeil(Num(leg.duration, 60)).n

\* what calculateRouteForMode resolves to for a leg of the directions service
calculateRouteForMode(travelMode, leg) ==
    [duration |-> formatDuration(DurMin(leg)),
     cost |-> IF travelMode = "TRANSIT"
              THEN calculatePublicTransportCost(Num(leg.distance, 1000), DurMin(leg),
                                                leg.transitTypes)
              ELSE "N/A"]

\* getTransitTypesFromResponse(response).join(" + ")
RECURSIVE Join(_)
Join(types) ==
    IF types = <<>> THEN ""
    ELSE IF Len(types) = 1 THEN types[1]
    ELSE types[1] \o " + " \o Join(Tail(types))

\* the routeInfo the callback of calculateRoute sets for a leg.  (The time of
\* arrival, which nothing reads, is left out.)
newRouteInfo(travelMode, transportType, leg) ==
    [distance |-> ToFixed(Num(leg.distance, 1000), 1),
     duration |-> formatDuration(DurMin(leg)),
     selectedTransport |-> IF travelMode = "TRANSIT" /\ Join(leg.transitTypes) # ""
                           THEN "Public Transport (" \o Join(leg.transitTypes) \o ")"
                           ELSE transportType,
     transitTypes |-> IF travelMode = "TRANSIT" THEN leg.transitTypes ELSE <<>>]

----------------------------------------------------------------------------
(* SPECIFICATIONS *)

IdleClock == now = 0

\* no dashboard is open
IdleDash ==
    /\ publicTrips = <<>>
    /\ loaded = FALSE
    /\ trips = <<>>
    /\ filters = InitialFilters
    /\ filteredTrips = <<>>
    /\ filteredAt = 0
    /\ driverReset = FALSE

\* no planner is open and the server has saved nothing
IdleSave ==
    /\ selectedTransportOption = <<>>
    /\ routeInfo = <<>>
    /\ requests = <<>>
    /\ lastTripFile = AbsentFile
    /\ allTripsFile = AbsentFile

\* no field is being parsed
IdleParse ==
    /\ parseInput = ""
    /\ parsed = <<>>

\* no total is being computed
IdleTotal ==
    /\ costTrips = <<>>
    /\ tripCosts = <<>>
    /\ totalCost = <<>>

\* the planner is as it is mounted
IdlePlanner ==
    /\ selectedUser = <<>>
    /\ showOptions = FALSE
    /\ calculatedDurations = <<>>
    /\ calculatedCosts = <<>>
    /\ searching = <<>>
    /\ pendingRoutes = <<>>

\* no period is being tested
IdlePeriod ==
    /\ ipTripDate = InvalidDate
    /\ ipPeriod = ""
    /\ ipResult = <<>>

\* no emissions are being computed
IdleEm ==
    /\ emFuelType = ""
    /\ emSegment = ""
    /\ emDistanceKm = Zero
    /\ emResult = ""

\* no fare is being computed
IdleFare ==
    /\ ptDistance = Zero
    /\ ptDuration = 0
    /\ ptTypes = <<>>
    /\ ptCost = ""

\* no car cost is being computed
IdleCar ==
    /\ carsDatabase = <<>>
    /\ selectedCar = 0
    /\ tripCarModel = ""
    /\ tripDistance = ""
    /\ prices = czFuelPrices
    /\ carCost = <<>>
    /\ carCostLabel = ""

(* The fare of a transit route *)

InitFare ==
    /\ ptDistance \in {Num(m, 1000) : m \in FareMetres}
    /\ ptDuration \in FareMinutes
    /\ ptTypes \in TransitTypeLists
    /\ ptCost = ""

\* the call of calculatePublicTransportCost in calculateRouteForMode
CalculatePublicTransportCost ==
    /\ ptCost = ""
    /\ ptCost' = calculatePublicTransportCost(ptDistance, ptDuration, ptTypes)
    /\ UNCHANGED <<ptDistance, ptDuration, ptTypes>>
    /\ UNCHANGED notFareVars

NextFare == CalculatePublicTransportCost

FareInit == InitFare /\ IdleCar /\ IdleEm /\ IdleClock /\ IdlePeriod /\ IdleDash /\ IdleSave /\ IdleParse /\ IdleTotal /\ IdlePlanner

SpecFare == FareInit /\ [][NextFare]_vars

(* The cost of a car trip *)

\* the largest catalog of the model
MaxCars == 2

CarPool ==
    { [id |-> "1", brand |-> "Volkswagen", model |-> "Polo", fuelType |-> "Petrol",
       marketSegment |-> "Small car", efficiency |-> "6.2L/100km"],
      [id |-> "2", brand |-> "Tesla", model |-> "Model S",
       fuelType |-> "Battery Electric Vehicle",
       marketSegment |-> "Large car", efficiency |-> "18kWh/100km"],
      [id |-> "3", brand |-> "MINI", model |-> "Cooper D", fuelType |-> "Diesel",
       marketSegment |-> "Small car", efficiency |-> "4.35 l/100km"],
      [id |-> "4", brand |-> "Toyota", model |-> "Mirai", fuelType |-> "Hydrogen",
       marketSegment |-> "Large car", efficiency |-> "0.8kg/100km"],
      [id |-> "5", brand |-> "Ford", model |-> "Fiesta", fuelType |-> "Petrol",
       marketSegment |-> "Small car", efficiency |-> "N/A"],
      [id |-> "6", brand |-> "Toyota", model |-> "Prius", fuelType |-> "Hybrid",
       marketSegment |-> "Average car", efficiency |-> "0L/100km"],
      [id |-> "7", brand |-> "Volkswagen", model |-> "Golf GTE",
       fuelType |-> "Plug-in Hybrid Electric Vehicle",
       marketSegment |-> "Medium car", efficiency |-> "1.7L/100km"] }

\* catalogs: lists of distinct cars ("brand model" is the key of a car)
Catalogs ==
    {c \in UNION {[1..k -> CarPool] : k \in 0..MaxCars} :
        \A i, j \in DOMAIN c : i # j => c[i] # c[j]}

TripCarModels ==
    {"Volkswagen Polo", "TESLA model s", "MINI Cooper D", "Toyota Mirai", "Ford Fiesta",
     "toyota prius", "Skoda Octavia"}

\* distances as text: routeInfo.distance of the planner and Trip.distance
DistanceLabels == {"0.0", "0.1", "8.6", "100.0", "-5.0", "abc"}

\* a table without electricity and with a zero price
OtherPrices ==
    [ft \in {"Petrol", "Diesel"} |->
        IF ft = "Petrol" THEN Num(4000, 100) ELSE Zero]

\* either a trip handed to getCarCost with a price table, or the planner with a
\* selected car (tripCarModel = "": the planner builds the trip itself)
InitCar ==
    /\ carsDatabase \in Catalogs
    /\ tripDistance \in DistanceLabels
    /\ \/ /\ selectedCar = 0
          /\ tripCarModel \in TripCarModels
          /\ prices \in {czFuelPrices, OtherPrices}
       \/ /\ selectedCar \in 0..Len(carsDatabase)
          /\ tripCarModel = ""
          /\ prices = czFuelPrices
    /\ carCost = <<>>
    /\ carCostLabel = ""

\* a call of getCarCost
GetCarCost ==
    /\ tripCarModel # ""
    /\ carCost = <<>>
    /\ carCost' = <<getCarCost([carModel |-> tripCarModel, distance |-> tripDistance],
                               carsDatabase, prices)>>
    /\ UNCHANGED <<carsDatabase, selectedCar, tripCarModel, tripDistance, prices,
                   carCostLabel>>
    /\ UNCHANGED notCarVars

\* the planner's cost of the driving option:
\* calculateCarCost(parseFloat(routeInfo.distance))
CalculateCarCost ==
    /\ tripCarModel = ""
    /\ carCostLabel = ""
    /\ carCostLabel' = calculateCarCost(selectedCar, carsDatabase, ParseFloat(tripDistance))
    /\ UNCHANGED <<carsDatabase, selectedCar, tripCarModel, tripDistance, prices,
                   carCost>>
    /\ UNCHANGED notCarVars

NextCar == GetCarCost \/ CalculateCarCost

CarInit == InitCar /\ IdleFare /\ IdleEm /\ IdleClock /\ IdlePeriod /\ IdleDash /\ IdleSave /\ IdleParse /\ IdleTotal /\ IdlePlanner

SpecCar == CarInit /\ [][NextCar]_vars

(* The emissions of a car trip *)

\* fuel types and market segments of cars and users, some without a factor
EmFuelTypes == FuelTypes \cup {"Hydrogen", ""}
EmSegments == MarketSegments \cup {"Luxury car", ""}

\* route lengths in km: parseFloat(routeInfo.distance), one decimal place
EmDistanceLabels == {"0.0", "0.1", "0.3", "3.4", "8.6", "12.3", "100.0"}

InitEm ==
    /\ emFuelType \in EmFuelTypes
    /\ emSegment \in EmSegments
    /\ emDistanceKm \in {ParseFloat(l) : l \in EmDistanceLabels}
    /\ emResult = ""

\* a call of calculateRealEmissions
CalculateRealEmissions ==
    /\ emResult = ""
    /\ emResult' = calculateRealEmissions(emFuelType, emSegment, emDistanceKm)
    /\ UNCHANGED <<emFuelType, emSegment, emDistanceKm>>
    /\ UNCHANGED notEmVars

NextEm == CalculateRealEmissions

EmInit == InitEm /\ IdleFare /\ IdleCar /\ IdleClock /\ IdlePeriod /\ IdleDash /\ IdleSave /\ IdleParse /\ IdleTotal /\ IdlePlanner

SpecEm == EmInit /\ [][NextEm]_vars

(* The period of a trip *)

\* how many days before the clock's day the trips of the model go back
MaxDaysBack == 9

\* the days on which the clock is read: 5 January 2025 (seven days back is in
\* the year before), 3 March 2024 (seven days back is in a February of 29 days)
\* and 20 June 2025
ClockDays == {NewDate(2025, 0, 5), NewDate(2024, 2, 3), NewDate(2025, 5, 20)}

Clocks == {d + k : d \in ClockDays, k \in 0..(TicksPerDay - 1)}

\* trip dates around a clock: the days back, the day after, the same day a
\* year earlier or later, and a text that is no date
TripDatesAround(clock) ==
    LET day == (clock \div TicksPerDay) * TicksPerDay
    IN  {t \in {day + k : k \in (-MaxDaysBack * TicksPerDay)..(2 * TicksPerDay - 1)}
                \cup {day - 30 * TicksPerDay, day - 365 * TicksPerDay,
                      day + 365 * TicksPerDay} :
            t >= 0} \cup {InvalidDate}

InitPeriod ==
    /\ now \in Clocks
    /\ ipTripDate \in TripDatesAround(now)
    /\ ipPeriod \in Periods
    /\ ipResult = <<>>

\* a call of isInPeriod
IsInPeriod ==
    /\ ipResult = <<>>
    /\ ipResult' = <<isInPeriod(ipTripDate, ipPeriod, now)>>
    /\ UNCHANGED <<now, ipTripDate, ipPeriod>>
    /\ UNCHANGED notPeriodVars

NextPeriod == IsInPeriod

PeriodInit == InitPeriod /\ IdleFare /\ IdleCar /\ IdleEm /\ IdleDash /\ IdleSave /\ IdleParse /\ IdleTotal /\ IdlePlanner

SpecPeriod == PeriodInit /\ [][NextPeriod]_vars

(* The dashboard *)

\* the most trips in the file the dashboard fetches, and how far the clock
\* moves while the dashboard is open
MaxTrips == 2
MaxTicks == 1

\* the dashboard opens in the last tick of 20 February 2025
DashClock == NewDate(2025, 1, 20) + TicksPerDay - 1

\* trips of three drivers, two departments and two car models: of today, of the
\* midnight seven days before today, of earlier this month, of earlier this
\* year, of last year, and with a timestamp that is no date
FilterPool ==
    << TripRecord("user1", "Sales", "Ford Fiesta", "6.0L/100km", "8.6", "20 minutes",
                  "1.1kg CO₂", "Car", "17 CZK", NewDate(2025, 1, 20) + 1),
       TripRecord("user1", "Sales", "Ford Fiesta", "6.0L/100km", "12.3", "25 minutes",
                  "1.5kg CO₂", "Public Transport", "30 CZK", NewDate(2025, 1, 20)),
       TripRecord("user1", "Sales", "Ford Fiesta", "6.0L/100km", "3.4", "9 minutes",
                  "0.4kg CO₂", "Car", "7 CZK", NewDate(2025, 1, 13)),
       TripRecord("user1", "Sales", "Tesla Model S", "18kWh/100km", "100.0", "1h 5 min",
                  "0.0kg CO₂", "Car", "270 CZK", NewDate(2025, 1, 20) + 1),
       TripRecord("user1", "Sales", "Tesla Model S", "18kWh/100km", "8.6", "20 minutes",
                  "0.0kg CO₂", "Walking", "0 CZK", NewDate(2025, 1, 2) + 1),
       TripRecord("user2", "Sales", "Ford Fiesta", "6.0L/100km", "8.6", "20 minutes",
                  "1.1kg CO₂", "Car", "17 CZK", NewDate(2025, 1, 20) + 1),
       TripRecord("user2", "Sales", "Ford Fiesta", "6.0L/100km", "0.3", "1 minutes",
                  "0.0kg CO₂", "Bicycle", "0 CZK", NewDate(2025, 0, 10)),
       TripRecord("user3", "IT", "Ford Fiesta", "6.0L/100km", "8.6", "20 minutes",
                  "1.1kg CO₂", "Car", "17 CZK", NewDate(2025, 1, 20) + 1),
       TripRecord("user3", "IT", "Ford Fiesta", "6.0L/100km", "8.6", "20 minutes",
                  "1.1kg CO₂", "Car", "17 CZK", NewDate(2024, 11, 25) + 2),
       TripRecord("user3", "IT", "Ford Fiesta", "6.0L/100km", "8.6", "20 minutes",
                  "1.1kg CO₂", "Car", "17 CZK", InvalidDate) >>

\* the files of at most MaxTrips trips of a pool, in the order of the pool
RECURSIVE Snapshots(_, _)
Snapshots(pool, k) ==
    IF k = 0 \/ pool = <<>> THEN {<<>>}
    ELSE Snapshots(Tail(pool), k)
            \cup {<<Head(pool)>> \o rest : rest \in Snapshots(Tail(pool), k - 1)}

\* the dashboard has been mounted and has rendered once; the fetch is under way
InitDash(pool) ==
    /\ now = DashClock
    /\ publicTrips \in Snapshots(pool, MaxTrips)
    /\ loaded = FALSE
    /\ trips = <<>>
    /\ filters = InitialFilters
    /\ filteredTrips = FilteredTrips(trips, filters, now)
    /\ filteredAt = now
    /\ driverReset = FALSE

\* the renders after a change: the trips are tr and the filters, which were
\* before, are now requested (tripsChanged: the change replaced trips); the
\* effects run, and filteredTrips is computed anew
Render_beforeEffects(tr, before, requested, tripsChanged) ==
    /\ trips' = tr
    /\ filters' = RunEffects(tr, before, requested, tripsChanged)
    /\ driverReset' = /\ tripsChanged \/ before.department # requested.department
                      /\ DepartmentEffect(tr, requested, requested) # requested
    /\ filteredTrips' = FilteredTrips(trips', requested, now)
    /\ filteredAt' = now
    /\ UNCHANGED <<now, publicTrips>>
    /\ UNCHANGED notDashVars

Render(tr, before, requested, tripsChanged) ==
    /\ trips' = tr
    /\ filters' = RunEffects(tr, before, requested, tripsChanged)
    /\ driverReset' = /\ tripsChanged \/ before.department # requested.department
                      /\ DepartmentEffect(tr, requested, requested) # requested
    /\ filteredTrips' = FilteredTrips(trips', filters', now)
    /\ filteredAt' = now
    /\ UNCHANGED <<now, publicTrips>>
    /\ UNCHANGED notDashVars

\* loadTripData: the fetch gives the file and setTrips stores it
LoadTripData ==
    /\ ~loaded
    /\ loaded' = TRUE
    /\ Render(publicTrips, filters, filters, TRUE)

\* loadTripData: the fetch fails and the error is logged
LoadTripDataFails ==
    /\ ~loaded
    /\ loaded' = TRUE
    /\ UNCHANGED <<now, publicTrips, trips, filters, filteredTrips, filteredAt, driverReset>>
    /\ UNCHANGED notDashVars

\* onChange of the four dropdowns
SetPeriod ==
    \E period \in Periods \ {filters.period} :
        /\ Render(trips, filters, [filters EXCEPT !.period = period], FALSE)
        /\ UNCHANGED loaded

SetDepartment ==
    \E department \in ({""} \cup uniqueDepartments(trips)) \ {filters.department} :
        /\ Render(trips, filters, [filters EXCEPT !.department = department], FALSE)
        /\ UNCHANGED loaded

SetDriverName ==
    \E driverName \in ({""} \cup uniqueUserIds(trips, filters)) \ {filters.driverName} :
        /\ Render(trips, filters, [filters EXCEPT !.driverName = driverName], FALSE)
        /\ UNCHANGED loaded

SetCarModel ==
    \E carModel \in ({""} \cup uniqueCarModels(trips, filters)) \ {filters.carModel} :
        /\ Render(trips, filters, [filters EXCEPT !.carModel = carModel], FALSE)
        /\ UNCHANGED loaded

\* time passes; nothing renders
Tick ==
    /\ now < DashClock + MaxTicks
    /\ now' = now + 1
    /\ UNCHANGED dashVars
    /\ UNCHANGED notDashVars

NextDash ==
    \/ LoadTripData
    \/ LoadTripDataFails
    \/ SetPeriod
    \/ SetDepartment
    \/ SetDriverName
    \/ SetCarModel
    \/ Tick

DashInit == InitDash(FilterPool) /\ IdleFare /\ IdleCar /\ IdleEm /\ IdlePeriod /\ IdleSave /\ IdleParse /\ IdleTotal /\ IdlePlanner

SpecDash == DashInit /\ [][NextDash]_vars

(* The dashboard over trips that differ in what was measured *)

\* trips of one driver and one car, all of today: averages of 50, 50.1, 150, 200
\* and 200.1 g/km (and of 100 for the first and the fifth together), totals of
\* 100 and 500 kg, labels of every form the planner writes, and fields that
\* are empty, malformed or negative
MetricsPool ==
    << TripRecord("user1", "Sales", "Ford Fiesta", "6.0L/100km", "10.0", "20 minutes",
                  "0.5kg CO₂", "Car", "21 CZK", NewDate(2025, 1, 20) + 1),
       TripRecord("user1", "Sales", "Ford Fiesta", "8.0L/100km", "10.0", "1h 5 min",
                  "0.501kg CO₂", "Car", "$5", NewDate(2025, 1, 20) + 1),
       TripRecord("user1", "Sales", "Ford Fiesta", "4.35 l/100km", "10.0", "2 hours",
                  "2.0kg CO₂", "Car", "33.5 CZK", NewDate(2025, 1, 20) + 1),
       TripRecord("user1", "Sales", "Ford Fiesta", "8.1L/100km", "10.0", "45 min",
                  "2.001kg CO₂", "Car", "150 CZK", NewDate(2025, 1, 20) + 1),
       TripRecord("user1", "Sales", "Ford Fiesta", "6.0L/100km", "10.0", "25 minutes",
                  "1.5kg CO₂", "Public Transport", "30 CZK", NewDate(2025, 1, 20) + 1),
       TripRecord("user1", "Sales", "Ford Fiesta", "6.5L/100km", "100.0", "1 hour",
                  "100.0kg CO₂", "Car", "219 CZK", NewDate(2025, 1, 20) + 1),
       TripRecord("user1", "Sales", "Ford Fiesta", "6.0L/100km", "50.0", "30 minutes",
                  "500.0kg CO₂", "Car", "101 CZK", NewDate(2025, 1, 20) + 1),
       TripRecord("user1", "Sales", "Ford Fiesta", "0.0L/100km", "0.0", "0 minutes",
                  "0.0kg CO₂", "Walking", "0 CZK", NewDate(2025, 1, 20) + 1),
       TripRecord("user1", "Sales", "Ford Fiesta", "", "", "", "n.a.", "", "N/A",
                  NewDate(2025, 1, 20) + 1),
       TripRecord("user1", "Sales", "Ford Fiesta", "18kWh/100km", "-5.0", "10 min",
                  "300g CO₂", "Car", "12.5 CZK", NewDate(2025, 1, 20) + 1) >>

MetricsInit == InitDash(MetricsPool) /\ IdleFare /\ IdleCar /\ IdleEm /\ IdlePeriod /\ IdleSave /\ IdleParse /\ IdleTotal /\ IdlePlanner

SpecMetrics == MetricsInit /\ [][NextDash]_vars

----------------------------------------------------------------------------
(* The planner's Let's Ride button and the save-trip handler *)

MaxRequests == 2

RequestIds == 1..MaxRequests

\* the options and routes the planner can show
OptionPool ==
    {[type |-> "By car", cost |-> "120 CZK"], [type |-> "Public transport", cost |-> "30 CZK"]}

RoutePool == {[distance |-> "8.5", duration |-> "21 min"]}

\* a record saved before the planner was opened
EarlierTrip ==
    [distance |-> "3.1", duration |-> "9 min", transportType |-> "walking",
     cost |-> "Free", tripTimestamp |-> DashClock - TicksPerDay]

InitSave ==
    /\ now = DashClock
    /\ selectedTransportOption \in {<<>>} \cup {<<o>> : o \in OptionPool}
    /\ routeInfo \in {<<>>} \cup {<<r>> : r \in RoutePool}
    /\ requests = [r \in RequestIds |-> NoRequest]
    /\ \/ lastTripFile = AbsentFile /\ allTripsFile = AbsentFile
       \/ lastTripFile = JsonFile(<<EarlierTrip>>) /\ allTripsFile = JsonFile(<<EarlierTrip>>)

\* the button is shown while an option and a route are there; a click sends
\* the record and waits for the answer
LetsRide(r) ==
    /\ selectedTransportOption # <<>>
    /\ routeInfo # <<>>
    /\ requests[r].client = "idle"
    /\ \A q \in RequestIds : q < r => requests[q].client # "idle"
    /\ requests' = [requests EXCEPT ![r] =
            [client |-> "waiting", server |-> "received",
             body |-> tripData(selectedUser, selectedCar, carsDatabase, Head(routeInfo),
                              Head(selectedTransportOption)),
             result |-> "", alert |-> ""]]
    /\ UNCHANGED <<now, selectedTransportOption, routeInfo, lastTripFile, allTripsFile>>
    /\ UNCHANGED notSaveVars

\* the handler of request r runs from the arrival of the body to its answer
Handle(r, ending) ==
    /\ \E done \in {POST(requests[r].body, now, lastTripFile, allTripsFile, ending)} :
        /\ lastTripFile' = done.lastTripFile
        /\ allTripsFile' = done.allTripsFile
        /\ requests' = [requests EXCEPT ![r].server = "answered",
                                        ![r].result = IF done.success THEN "success" ELSE "failed"]
    /\ UNCHANGED <<now, selectedTransportOption, routeInfo>>
    /\ UNCHANGED notSaveVars

SaveTrip(r) ==
    /\ requests[r].server = "received"
    /\ Handle(r, "saved")

SaveTripFails(r) ==
    /\ requests[r].server = "received"
    /\ \E ending \in Endings \ {"saved"} : Handle(r, ending)

\* the click handler continues with the outcome of the fetch
Continue(r, outcome) ==
    /\ \E after \in {onClickResult(outcome, selectedTransportOption, routeInfo)} :
        /\ requests' = [requests EXCEPT ![r].client = "alerted", ![r].alert = after.alert]
        /\ selectedTransportOption' = after.selectedTransportOption
        /\ routeInfo' = after.routeInfo
    /\ UNCHANGED <<now, lastTripFile, allTripsFile>>
    /\ UNCHANGED notSaveVars

\* the answer of request r reaches the planner
ReceiveAnswer(r) ==
    /\ requests[r].client = "waiting"
    /\ requests[r].server = "answered"
    /\ Continue(r, requests[r].result)

\* the fetch of request r, or the reading of its answer, throws
RequestThrows(r) ==
    /\ requests[r].client = "waiting"
    /\ Continue(r, "threw")

NextSave ==
    \/ \E r \in RequestIds : LetsRide(r)
    \/ \E r \in RequestIds : SaveTrip(r)
    \/ \E r \in RequestIds : SaveTripFails(r)
    \/ \E r \in RequestIds : ReceiveAnswer(r)
    \/ \E r \in RequestIds : RequestThrows(r)
    \/ Tick

SaveInit == InitSave /\ IdleFare /\ IdleCar /\ IdleEm /\ IdlePeriod /\ IdleDash /\ IdleParse /\ IdleTotal /\ IdlePlanner

SpecSave == SaveInit /\ [][NextSave]_vars

----------------------------------------------------------------------------
(* The parsers of the dashboard, applied to one field *)

MaxTokens == 2

\* the pieces the fields of the model are made of
Tokens == {"1", "20", "6.5", ".", "h", " ", "min", "kg", "g", "$", "L", "n.a"}

\* the texts of at most k pieces
RECURSIVE Texts(_)
Texts(k) ==
    IF k = 0 THEN {""}
    ELSE Texts(k - 1) \cup {t \o piece : t \in Texts(k - 1), piece \in Tokens}

\* fields as the planner writes them and as the trip log holds them
KnownFields ==
    {"1h 2 min", "45 min", "2h", "21 min", "1 hour 5 min", "2 hours",
     "120 CZK", "$5", "$4.50", "33.5 CZK", "Free", "N/A",
     "1.23kg CO₂", "0g CO₂", "300g CO₂", "n.a.",
     "6.0L/100km", "6.5L/100km", "18kWh/100km", "4.35 l/100km", "8.56", "-5.0"}

\* the longest route of the model, in minutes
MaxMinutes == 125

\* the durations the planner writes into a trip
DurationLabels == {formatDuration(minutes) : minutes \in 0..MaxMinutes}

Fields == KnownFields \cup Texts(MaxTokens) \cup DurationLabels

InitParse ==
    /\ parseInput \in Fields
    /\ parsed = <<>>

Parse(parser, value) ==
    /\ parsed' = [parser |-> parser, value |-> value]
    /\ UNCHANGED <<now, parseInput>>
    /\ UNCHANGED notParseVars

ParseDistance ==
    /\ parsed = <<>>
    /\ Parse("parseDistance", parseDistance(parseInput))

ParseDuration ==
    /\ parsed = <<>>
    /\ Parse("parseDuration", parseDuration(parseInput))

ParseCO2 ==
    /\ parsed = <<>>
    /\ Parse("parseCO2", parseCO2(parseInput))

ParseCost ==
    /\ parsed = <<>>
    /\ Parse("parseCost", parseCost(parseInput))

GetFuelConsumption ==
    /\ parsed = <<>>
    /\ Parse("getFuelConsumption", getFuelConsumption("", parseInput))

NextParse ==
    \/ ParseDistance
    \/ ParseDuration
    \/ ParseCO2
    \/ ParseCost
    \/ GetFuelConsumption

ParseInit == InitParse /\ IdleFare /\ IdleCar /\ IdleEm /\ IdleClock /\ IdlePeriod /\ IdleDash /\ IdleSave /\ IdleTotal /\ IdlePlanner

SpecParse == ParseInit /\ [][NextParse]_vars

----------------------------------------------------------------------------
(* The total cost of the trips of one car *)

MaxCostTrips == 2

\* trip lengths in km, as the planner writes them
CostDistanceLabels == {"0.1", "0.3", "1.0", "3.4", "8.6", "12.3", "100.0"}

\* the name under which the trips of the model carry a car
CarName(car) == car.brand \o " " \o car.model

InitTotal ==
    /\ carsDatabase \in {<<car>> : car \in CarPool}
    /\ tripCarModel \in {CarName(carsDatabase[1]), "Skoda Octavia"}
    /\ prices \in {czFuelPrices, OtherPrices}
    /\ costTrips \in UNION {[1..k -> {[carModel |-> tripCarModel, distance |-> d] :
                                        d \in CostDistanceLabels}] : k \in 0..MaxCostTrips}
    /\ tripCosts = <<>>
    /\ totalCost = <<>>
    /\ selectedCar = 0
    /\ tripDistance = ""
    /\ carCost = <<>>
    /\ carCostLabel = ""

\* a call of getTotalCost
GetTotalCost ==
    /\ totalCost = <<>>
    /\ tripCosts' = [i \in 1..Len(costTrips) |-> getCarCost(costTrips[i], carsDatabase, prices)]
    /\ totalCost' = <<getTotalCost(costTrips, carsDatabase, prices)>>
    /\ UNCHANGED <<now, carsDatabase, tripCarModel, prices, costTrips>>
    /\ UNCHANGED notTotalVars

NextTotal == GetTotalCost

TotalInit == InitTotal /\ IdleFare /\ IdleEm /\ IdleClock /\ IdlePeriod /\ IdleDash /\ IdleSave /\ IdleParse /\ IdlePlanner

SpecTotal == TotalInit /\ [][NextTotal]_vars

----------------------------------------------------------------------------
(* The planner *)

MaxPendingRoutes == 2

\* catalogs that cars.json can hold
PlannerCatalogs ==
    {<<car1, car2>> \in CarPool \X CarPool :
        <<car1.id, car2.id>> \in {<<"1", "7">>, <<"6", "2">>, <<"4", "3">>}}

\* the planner is followed up to the confirmation of a trip
Planning == \A r \in RequestIds : requests[r].client = "idle"

UserPool ==
    {[userId |-> "user1", department |-> "Sales", fuelType |-> "Petrol",
      marketSegment |-> "Small car", carModel |-> "Volkswagen Polo"]}

\* the leg the directions service finds for each travel mode: metres, seconds
\* and the vehicles of the transit steps
DirectionsLeg(travelMode) ==
    CASE travelMode = "DRIVING" ->
            [distance |-> 8560, duration |-> 1260, transitTypes |-> <<>>]
      [] travelMode = "TRANSIT" ->
            [distance |-> 9140, duration |-> 3600, transitTypes |-> <<"Tram", "Bus">>]
      [] travelMode = "WALKING" ->
            [distance |-> 7900, duration |-> 5710, transitTypes |-> <<>>]

\* the sets of modes for which a search finds a route
SearchResults == {TravelModes, {}}

InitPlanner ==
    /\ now = DashClock
    /\ carsDatabase = <<>>
    /\ selectedCar = 0
    /\ selectedUser = <<>>
    /\ showOptions = FALSE
    /\ calculatedDurations = <<>>
    /\ calculatedCosts = <<>>
    /\ searching = <<>>
    /\ pendingRoutes = <<>>
    /\ selectedTransportOption = <<>>
    /\ routeInfo = <<>>
    /\ requests = [r \in RequestIds |-> NoRequest]
    /\ lastTripFile = AbsentFile
    /\ allTripsFile = AbsentFile
    /\ tripCarModel = ""
    /\ tripDistance = ""
    /\ prices = czFuelPrices
    /\ carCost = <<>>
    /\ carCostLabel = ""

\* what the planner's actions leave alone
notPlannerVars ==
    <<fareVars, tripCarModel, tripDistance, prices, carCost, carCostLabel, emVars, now, ipVars,
      dashVars, lastTripFile, allTripsFile, parseVars, totalVars>>

\* cars.json arrives, and the effect that follows selects the default car
LoadCarsData ==
    /\ Planning
    /\ carsDatabase = <<>>
    /\ carsDatabase' \in PlannerCatalogs
    /\ selectedCar' = IF selectedCar = 0 THEN DefaultCar(carsDatabase') ELSE selectedCar
    /\ UNCHANGED <<selectedTransportOption, routeInfo, requests, plannerVars>>
    /\ UNCHANGED notPlannerVars

\* a click in the list of users
SelectUser ==
    /\ Planning
    /\ \E user \in UserPool :
        /\ selectedUser # <<user>>
        /\ selectedUser' = <<user>>
    /\ UNCHANGED <<showOptions, calculatedDurations, calculatedCosts, searching, pendingRoutes>>
    /\ UNCHANGED <<carsDatabase, selectedCar, selectedTransportOption, routeInfo, requests>>
    /\ UNCHANGED notPlannerVars

\* a click in the list of cars, which shows the cars of the user's fuel type
SelectCar ==
    /\ Planning
    /\ \E car \in DOMAIN carsDatabase :
        /\ IF selectedUser = <<>> THEN TRUE
           ELSE carsDatabase[car].fuelType = selectedUser[1].fuelType
        /\ car # selectedCar
        /\ selectedCar' = car
    /\ UNCHANGED <<carsDatabase, selectedTransportOption, routeInfo, requests, plannerVars>>
    /\ UNCHANGED notPlannerVars

\* Find Routes: the options are shown and calculateAllRoutes starts, with the
\* selectedTransportOption of this render.  (One search runs at a time.)
HandleSearch ==
    /\ Planning
    /\ searching = <<>>
    /\ showOptions' = TRUE
    /\ searching' = <<[selected |-> selectedTransportOption # <<>>]>>
    /\ UNCHANGED <<selectedUser, calculatedDurations, calculatedCosts, pendingRoutes>>
    /\ UNCHANGED <<carsDatabase, selectedCar, selectedTransportOption, routeInfo, requests>>
    /\ UNCHANGED notPlannerVars

\* calculateAllRoutes has awaited the three modes: it sets the durations and
\* costs, and requests the driving route if no option was selected when the
\* search started
AllRoutesCalculated ==
    /\ Planning
    /\ searching # <<>>
    /\ searching[1].selected \/ Len(pendingRoutes) < MaxPendingRoutes
    /\ \E found \in SearchResults :
        /\ calculatedDurations' =
                [mode \in found |-> calculateRouteForMode(mode, DirectionsLeg(mode)).duration]
        /\ calculatedCosts' =
                [mode \in found \cap {"TRANSIT"} |->
                    calculateRouteForMode(mode, DirectionsLeg(mode)).cost]
    /\ pendingRoutes' =
            IF ~searching[1].selected
            THEN Append(pendingRoutes, [travelMode |-> "DRIVING", transportType |-> "By car"])
            ELSE pendingRoutes
    /\ searching' = <<>>
    /\ UNCHANGED <<selectedUser, showOptions>>
    /\ UNCHANGED <<carsDatabase, selectedCar, selectedTransportOption, routeInfo, requests>>
    /\ UNCHANGED notPlannerVars

\* Select on an option of the list: the option of this render is kept and its
\* route is requested
SelectTransportOption ==
    /\ Planning
    /\ showOptions
    /\ Len(pendingRoutes) < MaxPendingRoutes
    /\ \E mode \in TravelModes :
        \E option \in {transportOptions(selectedCar, carsDatabase, routeInfo,
                                        calculatedDurations, calculatedCosts)[mode]} :
            /\ selectedTransportOption' = <<option>>
            /\ pendingRoutes' = Append(pendingRoutes,
                    [travelMode |-> option.travelMode, transportType |-> option.type])
    /\ UNCHANGED <<selectedUser, showOptions, calculatedDurations, calculatedCosts, searching>>
    /\ UNCHANGED <<carsDatabase, selectedCar, routeInfo, requests>>
    /\ UNCHANGED notPlannerVars

\* the call of calculateRoute at place i of pendingRoutes is no longer due
Called(i) == [j \in 1..(Len(pendingRoutes) - 1) |->
                IF j < i THEN pendingRoutes[j] ELSE pendingRoutes[j + 1]]

\* the callback of a call of calculateRoute, with a route
RouteFound ==
    /\ Planning
    /\ \E i \in DOMAIN pendingRoutes :
        /\ routeInfo' = <<newRouteInfo(pendingRoutes[i].travelMode, pendingRoutes[i].transportType,
                                       DirectionsLeg(pendingRoutes[i].travelMode))>>
        /\ pendingRoutes' = Called(i)
    /\ UNCHANGED <<selectedUser, showOptions, calculatedDurations, calculatedCosts, searching>>
    /\ UNCHANGED <<carsDatabase, selectedCar, selectedTransportOption, requests>>
    /\ UNCHANGED notPlannerVars

\* the callback of a call of calculateRoute, without one
RouteNotFound ==
    /\ Planning
    /\ \E i \in DOMAIN pendingRoutes :
        /\ routeInfo' = <<>>
        /\ pendingRoutes' = Called(i)
    /\ UNCHANGED <<selectedUser, showOptions, calculatedDurations, calculatedCosts, searching>>
    /\ UNCHANGED <<carsDatabase, selectedCar, selectedTransportOption, requests>>
    /\ UNCHANGED notPlannerVars

\* Let's Ride
Confirm ==
    /\ Planning
    /\ \E r \in RequestIds : LetsRide(r)

NextPlanner ==
    \/ LoadCarsData
    \/ SelectUser
    \/ SelectCar
    \/ HandleSearch
    \/ AllRoutesCalculated
    \/ SelectTransportOption
    \/ RouteFound
    \/ RouteNotFound
    \/ Confirm

PlannerInit == InitPlanner /\ IdleFare /\ IdleEm /\ IdlePeriod /\ IdleDash /\ IdleParse /\ IdleTotal

SpecPlanner == PlannerInit /\ [][NextPlanner]_vars


----------------------------------------------------------------------------
(* The planner's saves and the dashboard's loads, side by side *)

\* the file public/data/all-trips.json as deployed
DeployedTrips == SubSeq(FilterPool, 1, 1)

InitAnalytics ==
    /\ InitSave
    /\ InitDash(DeployedTrips)

\* the dashboard is opened anew: the state of the first render, the fetch
\* under way
Mount ==
    /\ loaded
    /\ loaded' = FALSE
    /\ trips' = <<>>
    /\ filters' = InitialFilters
    /\ filteredTrips' = FilteredTrips(trips', filters', now)
    /\ filteredAt' = now
    /\ driverReset' = FALSE
    /\ UNCHANGED <<now, publicTrips>>
    /\ UNCHANGED notDashVars

NextAnalytics ==
    \/ \E r \in RequestIds : LetsRide(r)
    \/ \E r \in RequestIds : SaveTrip(r)
    \/ \E r \in RequestIds : SaveTripFails(r)
    \/ \E r \in RequestIds : ReceiveAnswer(r)
    \/ \E r \in RequestIds : RequestThrows(r)
    \/ LoadTripData
    \/ LoadTripDataFails
    \/ Mount

AnalyticsInit ==
    InitAnalytics /\ IdleFare /\ IdleCar /\ IdleEm /\ IdlePeriod /\ IdleParse /\ IdleTotal /\ IdlePlanner

\* the server answers every request it received, the dashboard is opened again
\* and again, and its fetch succeeds again and again
FairAnalytics ==
    /\ \A r \in RequestIds : WF_vars(SaveTrip(r) \/ SaveTripFails(r))
    /\ WF_vars(Mount)
    /\ SF_vars(LoadTripData)

SpecAnalytics == AnalyticsInit /\ [][NextAnalytics]_vars /\ FairAnalytics
----------------------------------------------------------------------------
(* CLAIMS *)

(* C1: with a rail/train vehicle in transitTypes the fare is                *)
(* round(distanceKm x 1.5) CZK whatever the duration; without one it is 30  *)
(* CZK under 30 minutes, 40 CZK from 30 to 90 minutes and 120 CZK above 90. *)
C1_HasRail(types) == \E i \in DOMAIN types : types[i] = "Train"

C1_Metres == ptDistance.n * (1000 \div ptDistance.d)

C1_Fare ==
    ptCost # "" =>
        IF C1_HasRail(ptTypes)
        THEN /\ ptCost = NatToString((3 * C1_Metres + 1000) \div 2000) \o " CZK"
             /\ \A m \in FareMinutes :
                    calculatePublicTransportCost(ptDistance, m, ptTypes) = ptCost
        ELSE /\ ptDuration < 30 => ptCost = "30 CZK"
             /\ (30 <= ptDuration /\ ptDuration <= 90) => ptCost = "40 CZK"
             /\ ptDuration > 90 => ptCost = "120 CZK"

\* a rail route of 20 km priced at 30 CZK although it takes more than 90 minutes
C1_WitnessRail ==
    /\ C1_HasRail(ptTypes) /\ Len(ptTypes) = 2
    /\ ptDistance = Int2Num(20) /\ ptDuration > 90
    /\ ptCost = "30 CZK"

(* C2: for a trip whose car is in the catalog under its "brand model" name  *)
(* (letter case ignored), with a parsable efficiency e per 100 km, a fuel   *)
(* type priced p in the table and a distance d > 0, getCarCost returns      *)
(* d x (e / 100) x p rounded to 2 decimal places; a battery-electric car    *)
(* goes through the same formula with the price of electricity.             *)
C2_Car ==
    CHOOSE i \in DOMAIN carsDatabase :
        ToLowerCase(carsDatabase[i].brand \o " " \o carsDatabase[i].model)
            = ToLowerCase(tripCarModel)

C2_Resolvable ==
    /\ \E i \in DOMAIN carsDatabase :
            ToLowerCase(carsDatabase[i].brand \o " " \o carsDatabase[i].model)
                = ToLowerCase(tripCarModel)
    /\ ~parseEfficiencyValue(carsDatabase[C2_Car].efficiency).nan
    /\ carsDatabase[C2_Car].fuelType \in DOMAIN prices
    /\ JsGt(ParseFloat(tripDistance), Zero)

\* d x (e / 100) x p in hundredths, rounded to a whole number of them
C2_Hundredths ==
    LET d == ParseFloat(tripDistance)
        e == parseEfficiencyValue(carsDatabase[C2_Car].efficiency)
        p == prices[carsDatabase[C2_Car].fuelType]
        v == JsMul(JsMul(d, e), p)
    IN  (2 * v.n + v.d) \div (2 * v.d)

C2_Cost ==
    (carCost # <<>> /\ C2_Resolvable) => carCost[1] = Num(C2_Hundredths, 100)

\* 8.6 km in the Tesla (18 kWh/100km at 15 CZK): 23.22 CZK, found as "TESLA model s"
C2_WitnessElectric ==
    /\ carCost = <<Num(2322, 100)>>
    /\ C2_Resolvable
    /\ tripCarModel = "TESLA model s"
    /\ carsDatabase[C2_Car].fuelType = "Battery Electric Vehicle"
    /\ prices = czFuelPrices

(* C3: the displayed car trip cost is the unavailable outcome "N/A", never  *)
(* an amount, whenever the car's fuel type has no price, or its efficiency  *)
(* label has no parsable number, or the distance is <= 0; a zero price or a *)
(* zero efficiency never enters a cost shown as valid.  (From getCarCost    *)
(* the unavailable outcome is a result that is not positive.)               *)
C3_Unpriced(car, table) ==
    \/ car.fuelType \notin DOMAIN table
    \/ ~Truthy(UnitPrice(table, car.fuelType))

C3_NoEfficiency(car) == ~Truthy(parseEfficiencyValue(car.efficiency))

C4_Known == emSegment \in MarketSegments /\ emFuelType \in FuelTypes

\* factor x distance in tenths of a kilogram, to the nearest tenth
C4_Tenths ==
    LET e5 == FactorE5(emSegment, emFuelType) * emDistanceKm.n
        d == 100000 * emDistanceKm.d
    IN  (2 * 10 * e5 + d) \div (2 * d)

C4_Emissions ==
    emResult # "" =>
        IF C4_Known
        THEN emResult = NatToString(C4_Tenths \div 10) \o "."
                            \o NatToString(C4_Tenths % 10) \o "kg CO₂"
        ELSE emResult = "N/A"

\* a large petrol car over 100 km: 26.885 kg, shown as 26.9
C4_WitnessLargePetrol ==
    /\ emSegment = "Large car" /\ emFuelType = "Petrol"
    /\ emDistanceKm = Int2Num(100)
    /\ emResult = "26.9kg CO₂"

\* an unknown segment with a known fuel type: "N/A"
C4_WitnessUnknownSegment ==
    emSegment = "Luxury car" /\ emFuelType = "Petrol" /\ emResult = "N/A"

(* C6: isInPeriod at the time now: Today holds iff tripDate is on the same  *)
(* calendar day as now; Week iff tripDate is not earlier than 7 days before *)
(* now and not later than now; Month iff tripDate has the month and year of *)
(* now; Year iff tripDate has the year of now.                              *)
C6_Day(t) == t \div TicksPerDay

C6_InWindow(tripDate, period, clock) ==
    /\ tripDate # InvalidDate
    /\ CASE period = "Today" -> C6_Day(tripDate) = C6_Day(clock)
         [] period = "Week" -> clock - 7 * TicksPerDay <= tripDate /\ tripDate <= clock
         [] period = "Month" ->
                /\ getMonth(tripDate) = getMonth(clock)
                /\ getFullYear(tripDate) = getFullYear(clock)
         [] period = "Year" -> getFullYear(tripDate) = getFullYear(clock)

C6_Windows ==
    ipResult # <<>> => (ipResult[1] <=> C6_InWindow(ipTripDate, ipPeriod, now))

\* what the code does for Week: from the midnight that began the day 7 days
\* before today, through now
C6_WeekFromMidnight ==
    (ipResult # <<>> /\ ipPeriod = "Week") =>
        (ipResult[1] <=>
            /\ ipTripDate # InvalidDate
            /\ (C6_Day(now) - 7) * TicksPerDay <= ipTripDate
            /\ ipTripDate <= now)

\* the other three periods are as claimed
C6_OtherPeriods ==
    (ipResult # <<>> /\ ipPeriod # "Week") =>
        (ipResult[1] <=> C6_InWindow(ipTripDate, ipPeriod, now))

(* C5: the filtered trips are exactly the trips whose tripTimestamp is in    *)
(* the window of the selected period (as isInPeriod found it when the set   *)
(* was computed) and whose department, userId and carModel each equal the   *)
(* filter of that name unless the filter is empty, in the order of trips;   *)
(* nothing else of a trip decides.                                          *)
C5_Member(trip) ==
    /\ isInPeriod(trip.tripTimestamp, filters.period, filteredAt)
    /\ (filters.department = "" \/ filters.department = trip.userDepartment)
    /\ (filters.driverName = "" \/ filters.driverName = trip.userId)
    /\ (filters.carModel = "" \/ filters.carModel = trip.carModel)

C5_FilteredSet == filteredTrips = SelectSeq(trips, C5_Member)

\* all four filters are set, and they keep one trip and drop another
C5_WitnessAllFilters ==
    /\ filters.period = "Week"
    /\ filters.department # "" /\ filters.driverName # "" /\ filters.carModel # ""
    /\ Len(trips) = 2
    /\ Len(filteredTrips) = 1

(* C7: when the filtered trips are empty every numeric metric is 0 and the   *)
(* three ratings are "No Data"; when they are not empty (even with totals   *)
(* of 0 or malformed fields) none of the three ratings is "No Data".        *)
C7_Numeric ==
    {"totalDistance", "totalFuelLiters", "avgFuelPer100km", "totalDurationSeconds",
     "totalCostCZK", "totalCO2kg", "avgCO2PerKm", "avgSpeed", "costPerKm",
     "treesToOffset"}

C7_Ratings == {"carbonFootprintRating", "fuelEfficiencyRating", "emissionLevel"}

C7_NoData ==
    \A m \in {metrics} :
        /\ Len(filteredTrips) = 0 =>
                /\ \A f \in C7_Numeric : m[f] = Zero
                /\ \A f \in C7_Ratings : m[f] = "No Data"
        /\ Len(filteredTrips) > 0 => \A f \in C7_Ratings : m[f] # "No Data"

\* a filtered trip whose CO₂ label gives no number: the total is not a number
C7_WitnessMalformed == Len(filteredTrips) > 0 /\ metrics.totalCO2kg.nan

\* filtered trips that are there but add up to nothing
C7_WitnessZeroTotals ==
    /\ Len(filteredTrips) > 0
    /\ \A f \in C7_Numeric : metrics[f] = Zero

(* C8 as stated: for filtered trips that are not empty, avgFuelPer100km =     *)
(* totalFuel / totalDistance x 100, avgCO2PerKm = totalCO2 x 1000 /           *)
(* totalDistance, costPerKm = totalCost / totalDistance, avgSpeed =           *)
(* totalDistance / (totalDurationSeconds / 3600), each 0 when its denominator *)
(* is 0, and treesToOffset = ceil(totalCO2 / 21).                             *)
C8_PerUnless(num, den, noRate) == IF noRate THEN Zero ELSE JsDiv(num, den)

C8_Derived(m, noDistance, noDuration) ==
    /\ m.avgFuelPer100km =
            JsMul(C8_PerUnless(m.totalFuelLiters, m.totalDistance, noDistance),
                  Int2Num(100))
    /\ m.avgCO2PerKm =
            C8_PerUnless(JsMul(m.totalCO2kg, Int2Num(1000)), m.totalDistance, noDistance)
    /\ m.costPerKm = C8_PerUnless(m.totalCostCZK, m.totalDistance, noDistance)
    /\ m.avgSpeed =
            C8_PerUnless(m.totalDistance, JsDiv(m.totalDurationSeconds, Int2Num(3600)),
                         noDuration)
    /\ m.treesToOffset = MathCeil(JsDiv(m.totalCO2kg, Int2Num(21)))

C8_RatesZeroDenominator ==
    \A m \in {metrics} :
        Len(filteredTrips) > 0 =>
            C8_Derived(m, m.totalDistance = Zero, m.totalDurationSeconds = Zero)

(* C8, amended: the same formulas, but each rate is 0 whenever its           *)
(* denominator is not positive: 0, or below 0 as the distances of malformed  *)
(* records can add up to.                                                    *)
C8_RatesPositiveDenominator ==
    \A m \in {metrics} :
        Len(filteredTrips) > 0 =>
            C8_Derived(m, ~JsGt(m.totalDistance, Zero),
                       ~JsGt(m.totalDurationSeconds, Zero))

\* distances that add up to less than nothing on trips that emitted CO₂
C8_WitnessNegativeDistance ==
    /\ Len(filteredTrips) > 0
    /\ JsLt(metrics.totalDistance, Zero)
    /\ JsGt(metrics.totalCO2kg, Zero)
    /\ metrics.avgCO2PerKm = Zero

(* C9: for filtered trips that are not empty, emissionLevel is Excellent    *)
(* when avgCO2PerKm <= 50, else Good when <= 100, else Moderate when <= 150,*)
(* else High when <= 200, and Very High otherwise; so 50 is Excellent, 50.1 *)
(* Good, 200 High and 200.1 Very High.                                      *)
C9_Level(a) ==
    CASE JsLe(a, Int2Num(50)) -> "Excellent"
      [] JsGt(a, Int2Num(50)) /\ JsLe(a, Int2Num(100)) -> "Good"
      [] JsGt(a, Int2Num(100)) /\ JsLe(a, Int2Num(150)) -> "Moderate"
      [] JsGt(a, Int2Num(150)) /\ JsLe(a, Int2Num(200)) -> "High"
      [] OTHER -> "Very High"

C9_EmissionLevel ==
    \A m \in {metrics} :
        Len(filteredTrips) > 0 =>
            /\ m.emissionLevel = C9_Level(m.avgCO2PerKm)
            /\ m.avgCO2PerKm = Int2Num(50) => m.emissionLevel = "Excellent"
            /\ m.avgCO2PerKm = Num(501, 10) => m.emissionLevel = "Good"
            /\ m.avgCO2PerKm = Int2Num(200) => m.emissionLevel = "High"
            /\ m.avgCO2PerKm = Num(2001, 10) => m.emissionLevel = "Very High"

\* an average of exactly 50 g/km
C9_WitnessBoundary ==
    /\ Len(filteredTrips) > 0
    /\ metrics.avgCO2PerKm = Int2Num(50)
    /\ metrics.emissionLevel = "Excellent"

(* C10: for filtered trips that are not empty, carbonFootprintRating is Low *)
(* when totalCO2 < 100 kg, Moderate from 100 kg up to 500 kg, and High      *)
(* above 500 kg.                                                            *)
C10_CarbonRating ==
    \A m \in {metrics} :
        Len(filteredTrips) > 0 =>
            /\ JsLt(m.totalCO2kg, Int2Num(100)) => m.carbonFootprintRating = "Low"
            /\ (JsLe(Int2Num(100), m.totalCO2kg) /\ JsLe(m.totalCO2kg, Int2Num(500)))
                    => m.carbonFootprintRating = "Moderate"
            /\ JsGt(m.totalCO2kg, Int2Num(500)) => m.carbonFootprintRating = "High"

(* C11: for filtered trips that are not empty, totalDistance,               *)
(* totalDurationSeconds, totalCO2kg and totalCostCZK are the sums over the   *)
(* filtered trips of the parsed distance, duration, CO₂ and cost, and        *)
(* totalFuelLiters is the sum over them of distance x the trip's own         *)
(* consumption / 100.                                                        *)
RECURSIVE C11_Sum(_)
C11_Sum(xs) == IF Len(xs) = 0 THEN Zero ELSE JsAdd(Head(xs), C11_Sum(Tail(xs)))

C11_Consumption(trip) == getFuelConsumption(trip.carModel, trip.carEfficiency)

C11_Totals ==
    \A m \in {metrics}, ft \in {filteredTrips} :
        Len(ft) > 0 =>
            /\ m.totalDistance = C11_Sum([i \in 1..Len(ft) |-> parseDistance(ft[i].distance)])
            /\ m.totalDurationSeconds =
                    C11_Sum([i \in 1..Len(ft) |-> parseDuration(ft[i].duration)])
            /\ m.totalCO2kg = C11_Sum([i \in 1..Len(ft) |-> parseCO2(ft[i].co2Emissions)])
            /\ m.totalCostCZK = C11_Sum([i \in 1..Len(ft) |-> parseCost(ft[i].cost)])
            /\ m.totalFuelLiters =
                    C11_Sum([i \in 1..Len(ft) |->
                                JsDiv(JsMul(parseDistance(ft[i].distance),
                                            C11_Consumption(ft[i])),
                                      Int2Num(100))])

\* two filtered trips of different lengths and different consumptions: the sum
\* per trip is not what the average consumption gives for the total distance
C11_WitnessTwoConsumptions ==
    /\ Len(filteredTrips) = 2
    /\ ~metrics.totalFuelLiters.nan
    /\ parseDistance(filteredTrips[1].distance) # parseDistance(filteredTrips[2].distance)
    /\ C11_Consumption(filteredTrips[1]) # C11_Consumption(filteredTrips[2])

(* C12: when a driver is selected and a department is then chosen none of  *)
(* whose trips belongs to that driver, the driver filter and the car-model  *)
(* filter both become empty.                                                *)
C12_Excludes(department, driverName) ==
    \A i \in DOMAIN trips :
        trips[i].userDepartment = department => trips[i].userId # driverName

C12_CrossFilterReset ==
    [][(/\ filters.driverName # ""
        /\ trips' = trips
        /\ filters'.department # filters.department
        /\ filters'.department # ""
        /\ C12_Excludes(filters'.department, filters.driverName))
            => (filters'.driverName = "" /\ filters'.carModel = "")]_vars

\* the effect has just reset the driver for the department now selected
C12_WitnessReset ==
    /\ driverReset
    /\ filters.department # ""
    /\ filters.driverName = ""
    /\ filters.carModel = ""

(* C13: after any sequence of selections, once the effects have run, a      *)
(* driver filter that is not empty is one of the driver IDs offered (the     *)
(* userIds of the trips of the selected department) and a car-model filter  *)
(* that is not empty is one of the car models offered (the models of the    *)
(* trips of the selected department and driver).                            *)
C13_Offered ==
    /\ filters.driverName # "" => filters.driverName \in uniqueUserIds(trips, filters)
    /\ filters.carModel # "" => filters.carModel \in uniqueCarModels(trips, filters)

\* the part that holds: the driver selected is always one of those offered
C13_DriverOffered ==
    filters.driverName # "" => filters.driverName \in uniqueUserIds(trips, filters)


----------------------------------------------------------------------------
(* C14: the trip log is append-only *)

C14_IsPrefix(s, t) == Len(s) <= Len(t) /\ SubSeq(t, 1, Len(s)) = s

\* the records that can be read from all-trips.json
C14_Log(file) == IF file.state = "json" THEN file.content ELSE <<>>

\* the step is the handler's answer to request r, and the answer is a success
C14_Succeeds(r) == requests[r].result = "" /\ requests'[r].result = "success"

\* C14: across every step the records that were in all-trips.json are still
\* there, unchanged and in the same order, and a request that reports success
\* has added exactly its own record at the end of the log
C14_AppendOnly ==
    [][/\ C14_IsPrefix(C14_Log(allTripsFile), C14_Log(allTripsFile'))
       /\ \A r \in RequestIds : C14_Succeeds(r) =>
            C14_Log(allTripsFile') =
                Append(C14_Log(allTripsFile), [requests[r].body EXCEPT !.tripTimestamp = now])]_vars

\* C14, for the handlers that write all-trips.json to the end: the log read
\* before is a prefix of the log written, and a success adds one record
C14_AppendOnlyWhenWritten ==
    [][allTripsFile'.state = "json" =>
        /\ C14_IsPrefix(C14_Log(allTripsFile), C14_Log(allTripsFile'))
        /\ \A r \in RequestIds : C14_Succeeds(r) =>
            /\ Len(C14_Log(allTripsFile')) = Len(C14_Log(allTripsFile)) + 1
            /\ C14_Log(allTripsFile')[Len(C14_Log(allTripsFile'))].tripTimestamp = now]_vars

\* a success has replaced a log that could not be parsed by its own record
C14_LogReplaced ==
    \E r \in RequestIds :
        /\ requests[r].result = "success"
        /\ allTripsFile = JsonFile(<<[requests[r].body EXCEPT !.tripTimestamp = now]>>)
        /\ lastTripFile = allTripsFile
        /\ Len(allTripsFile.content) = 1
        /\ \E q \in RequestIds : requests[q].result = "failed"


----------------------------------------------------------------------------
(* C15: a failed save is shown as a failure and leaves the selection alone *)

\* the step ends the click handler of request r, whose trip the server has not
\* reported as saved: it answered success: false, or the request threw
C15_EndsUnsaved(r) ==
    /\ requests[r].client = "waiting"
    /\ requests'[r].client = "alerted"
    /\ requests[r].result # "success"

\* C15: when the save of request r fails, the planner shows one of the two
\* failure alerts and never 'Trip saved!', and selectedTransportOption and
\* routeInfo are what they were, still set, so the button still confirms the
\* same trip
C15_FailureSurfaced ==
    [][\A r \in RequestIds :
        /\ requests'[r].alert = "Trip saved!" => requests'[r].result = "success"
        /\ C15_EndsUnsaved(r) =>
            /\ requests'[r].alert \in {"Failed to save trip.", "Error saving trip."}
            /\ selectedTransportOption' = selectedTransportOption
            /\ routeInfo' = routeInfo
            /\ selectedTransportOption' # <<>>
            /\ routeInfo' # <<>>
            /\ tripData(selectedUser', selectedCar', carsDatabase', Head(routeInfo'),
                        Head(selectedTransportOption')) = requests[r].body]_vars

\* a save was answered with success: false, a second one threw, and the trip
\* was sent again with the same content each time
C15_WitnessRetry ==
    /\ requests[1].result = "failed"
    /\ requests[1].alert = "Failed to save trip."
    /\ requests[2].alert = "Error saving trip."
    /\ requests[2].body = requests[1].body
    /\ selectedTransportOption # <<>>
    /\ routeInfo # <<>>


----------------------------------------------------------------------------
(* C16: aggregation is deterministic *)

\* the filtered set and the metrics computed from the dashboard's snapshot and
\* filter criteria when the clock reads clock
C16_Aggregate(clock) ==
    LET again == FilteredTrips(trips, filters, clock)
    IN  [filteredTrips |-> again, metrics |-> Metrics(again)]

----------------------------------------------------------------------------
(* C17: the parsers are total *)

\* C17: whatever the field, each parser returns a number (never NaN)
C17_Total == parsed # <<>> => ~parsed.value.nan

\* C17, for parseDistance and parseDuration: whatever the field, the result is
\* a number, and it is zero for a field without a digit
C17_DistanceDurationTotal ==
    (parsed # <<>> /\ parsed.parser \in {"parseDistance", "parseDuration"}) =>
        /\ ~parsed.value.nan
        /\ (\A i \in 1..Len(parseInput) : ~IsDigit(CharAt(parseInput, i))) => parsed.value = Zero

\* one record whose CO₂ field holds points and no digit makes the total NaN
C17_TotalNotANumber ==
    /\ \E i \in 1..Len(filteredTrips) : filteredTrips[i].co2Emissions = "n.a."
    /\ totalCO2kg(filteredTrips).nan
    /\ metrics.totalCO2kg.nan


----------------------------------------------------------------------------
(* C18: parseDuration *)

\* the last place of the run of digits that starts at place i of s
C18_RunEnd(s, i) ==
    CHOOSE j \in i..Len(s) :
        /\ \A k \in i..j : IsDigit(CharAt(s, k))
        /\ j = Len(s) \/ ~IsDigit(CharAt(s, j + 1))

\* the places where a run of digits of s starts
C18_RunStarts(s) ==
    {i \in 1..Len(s) : IsDigit(CharAt(s, i)) /\ (i = 1 \/ ~IsDigit(CharAt(s, i - 1)))}

\* the first place after place j of s that holds no white space
C18_AfterSpaces(s, j) ==
    CHOOSE k \in (j + 1)..(Len(s) + 1) :
        /\ \A l \in (j + 1)..(k - 1) : IsSpace(CharAt(s, l))
        /\ k = Len(s) + 1 \/ ~IsSpace(CharAt(s, k))

\* the number of the first group of s among the runs that start at a place of
\* starts, 0 without one
C18_First(s, starts) ==
    IF starts = {} THEN 0
    ELSE LET i == CHOOSE i \in starts : \A o \in starts : i <= o
         IN  DigitsVal(SubSeq(s, i, C18_RunEnd(s, i)))

\* the number of the first "<N>h" group of s
C18_Hours(s) ==
    C18_First(s, {i \in C18_RunStarts(s) : HasAt(s, C18_RunEnd(s, i) + 1, "h")})

\* the number of the first "<N> min" group of s
C18_Minutes(s) ==
    C18_First(s, {i \in C18_RunStarts(s) :
                    HasAt(s, C18_AfterSpaces(s, C18_RunEnd(s, i)), "min")})

\* C18: parseDuration returns (hours * 60 + minutes) * 60 seconds, an absent
\* group counting as 0: 3720 for "1h 2 min", 2700 for "45 min", 7200 for "2h",
\* 0 for "" and for a text without a group
C18_ParseDuration ==
    (parsed # <<>> /\ parsed.parser = "parseDuration") =>
        /\ parsed.value = Int2Num((C18_Hours(parseInput) * 60 + C18_Minutes(parseInput)) * 60)
        /\ parseInput = "1h 2 min" => parsed.value = Int2Num(3720)
        /\ parseInput = "45 min" => parsed.value = Int2Num(2700)
        /\ parseInput = "2h" => parsed.value = Int2Num(7200)
        /\ parseInput \in {"", "Free", "n.a.", "h", "min", " min"} => parsed.value = Zero

\* a duration with both groups has been parsed
C18_WitnessBothGroups ==
    /\ parsed # <<>>
    /\ parsed.parser = "parseDuration"
    /\ parseInput = "1h 2 min"
    /\ parsed.value = Int2Num(3720)


----------------------------------------------------------------------------
(* C19: parseCost *)

\* s holds no digit
C19_NoNumber(s) == \A i \in 1..Len(s) : ~IsDigit(CharAt(s, i))

\* C19: parseCost returns the number of the cost, times 23 when the cost
\* carries "$", and 0 for a cost without a number: 120 for "120 CZK", 115 for
\* "$5", 0 for a malformed cost
C19_ParseCost ==
    (parsed # <<>> /\ parsed.parser = "parseCost") =>
        /\ parseInput = "120 CZK" => parsed.value = Int2Num(120)
        /\ parseInput = "$5" => parsed.value = Int2Num(115)
        /\ parseInput = "33.5 CZK" => parsed.value = Num(67, 2)
        /\ parseInput = "$4.50" => parsed.value = Num(207, 2)
        /\ C19_NoNumber(parseInput) => parsed.value = Zero

\* C19, for the costs without a point: the examples hold, and a cost with
\* neither a digit nor a point gives 0
C19_ParseCostWithoutPoints ==
    (parsed # <<>> /\ parsed.parser = "parseCost") =>
        /\ parseInput = "120 CZK" => parsed.value = Int2Num(120)
        /\ parseInput = "$5" => parsed.value = Int2Num(115)
        /\ parseInput = "33.5 CZK" => parsed.value = Num(67, 2)
        /\ parseInput = "$4.50" => parsed.value = Num(207, 2)
        /\ (C19_NoNumber(parseInput) /\ ~Includes(parseInput, ".")) => parsed.value = Zero


----------------------------------------------------------------------------
(* C20: the fallback of getFuelConsumption *)

\* the efficiency label of trip holds no figure before "L"
C20_UsesFallback(trip) == LitreMatchFrom(trip.carEfficiency, 1) = ""

\* the trips of ft, those that use the fallback carrying the label of a
\* measured 6.5 L/100km instead
C20_Measured(ft) ==
    [i \in 1..Len(ft) |->
        IF C20_UsesFallback(ft[i]) THEN [ft[i] EXCEPT !.carEfficiency = "6.5L/100km"]
        ELSE ft[i]]

\* C20: a trip without a figure before the litres marker counts with 6.5
\* L/100km, and the metrics of a report in which a trip used this fallback
\* differ from the metrics of the same trips labelled "6.5L/100km"
C20_FallbackDistinguished ==
    /\ \A i \in 1..Len(filteredTrips) :
        C20_UsesFallback(filteredTrips[i]) =>
            getFuelConsumption(filteredTrips[i].carModel, filteredTrips[i].carEfficiency) = Num(13, 2)
    /\ (\E i \in 1..Len(filteredTrips) : C20_UsesFallback(filteredTrips[i])) =>
            Metrics(C20_Measured(filteredTrips)) # metrics

\* C20, first half: a trip without a figure before the litres marker counts
\* with 6.5 L/100km
C20_Fallback ==
    \A i \in 1..Len(filteredTrips) :
        C20_UsesFallback(filteredTrips[i]) =>
            getFuelConsumption(filteredTrips[i].carModel, filteredTrips[i].carEfficiency) = Num(13, 2)

\* a report of an electric car's trip is the report of a 6.5 L/100km car
C20_FallbackShown ==
    /\ Len(filteredTrips) = 1
    /\ filteredTrips[1].carEfficiency = "18kWh/100km"
    /\ Metrics(C20_Measured(filteredTrips)) = metrics


----------------------------------------------------------------------------
(* C22: a battery electric vehicle emits nothing *)

\* C22: for the fuel type Battery Electric Vehicle, every market segment of
\* the factor table and every distance, calculateRealEmissions returns
\* "0.0kg CO₂"
C22_BatteryElectric ==
    (/\ emResult # ""
     /\ emFuelType = "Battery Electric Vehicle"
     /\ emSegment \in MarketSegments) => emResult = "0.0kg CO₂"

\* a large battery electric car over 100 km
C22_WitnessLargeElectric ==
    /\ emFuelType = "Battery Electric Vehicle"
    /\ emSegment = "Large car"
    /\ emDistanceKm = Int2Num(100)
    /\ emResult = "0.0kg CO₂"


----------------------------------------------------------------------------
(* C23, C24: getCarCost as a function of the distance *)

\* the trips' car is in the catalog, its efficiency label holds a number other
\* than zero and its fuel type has a price other than zero
C23_Resolvable ==
    /\ FindCar(carsDatabase, tripCarModel) # 0
    /\ Truthy(parseEfficiencyValue(carsDatabase[FindCar(carsDatabase, tripCarModel)].efficiency))
    /\ Truthy(UnitPrice(prices, carsDatabase[FindCar(carsDatabase, tripCarModel)].fuelType))

C23_Distance(i) == ParseFloat(costTrips[i].distance)

\* C23: for a resolvable car and price table, of two trips the longer one
\* never costs less
C23_Monotone ==
    (totalCost # <<>> /\ C23_Resolvable) =>
        \A i, j \in 1..Len(costTrips) :
            (JsGt(C23_Distance(i), Zero) /\ JsLe(C23_Distance(i), C23_Distance(j)))
                => JsLe(tripCosts[i], tripCosts[j])

\* the Polo over 0.3 km and over 1 km: 0.63 CZK and 2.09 CZK
C23_WitnessLonger ==
    /\ totalCost # <<>>
    /\ C23_Resolvable
    /\ Len(costTrips) = 2
    /\ costTrips[1].distance = "0.3" /\ costTrips[2].distance = "1.0"
    /\ tripCosts = <<Num(63, 100), Num(209, 100)>>

\* the distances of the trips, summed
RECURSIVE C24_SumOfDistances(_)
C24_SumOfDistances(k) ==
    IF k = 0 THEN Zero ELSE JsAdd(C24_SumOfDistances(k - 1), C23_Distance(k))

\* the cost of one trip over the summed distance
C24_CostOfSum ==
    getCarCost([carModel |-> tripCarModel,
                distance |-> NumToString(C24_SumOfDistances(Len(costTrips)))],
               carsDatabase, prices)

\* the total of the trips' costs less the cost of the summed distance
C24_Difference == JsAdd(totalCost[1], JsMul(Int2Num(-1), C24_CostOfSum))

\* C24: for a resolvable car and price table, the total of the costs of the
\* trips, as getTotalCost computes it, is the cost of the summed distance
C24_Linear ==
    (totalCost # <<>> /\ C23_Resolvable) => totalCost[1] = C24_CostOfSum

\* C24, with the rounding of each cost to hundredths: the total of the costs of
\* n trips differs from the cost of the summed distance by at most half a
\* hundredth for each of the n + 1 roundings
C24_LinearWithinRounding ==
    (totalCost # <<>> /\ C23_Resolvable) =>
        /\ JsLe(C24_Difference, Num(5 * (Len(costTrips) + 1), 1000))
        /\ JsLe(JsMul(Int2Num(-1), C24_Difference), Num(5 * (Len(costTrips) + 1), 1000))
        /\ Len(costTrips) = 1 => totalCost[1] = C24_CostOfSum

\* two trips whose costs are both rounded down: 0.1 km in the Polo costs 0.21
\* CZK, twice that is 0.42 CZK, and 0.2 km costs 0.42 CZK; 0.3 km costs 0.63
\* CZK, twice that is 1.26 CZK, and 0.6 km costs 1.25 CZK
C24_WitnessRounded ==
    /\ totalCost # <<>>
    /\ C23_Resolvable
    /\ Len(costTrips) = 2
    /\ totalCost[1] # C24_CostOfSum


----------------------------------------------------------------------------
(* C27: the label of a duration, written by the planner and read by the    *)
(* dashboard                                                                *)

\* C27: for every whole number of minutes, parseDuration of the label that
\* formatDuration makes of it is that many minutes in seconds
C27_RoundTrip ==
    (parsed # <<>> /\ parsed.parser = "parseDuration") =>
        \A minutes \in 0..MaxMinutes :
            parseInput = formatDuration(minutes) => parsed.value = Int2Num(minutes * 60)

\* C27, for the durations that are no whole number of hours
C27_RoundTripOffTheHour ==
    (parsed # <<>> /\ parsed.parser = "parseDuration") =>
        \A minutes \in 0..MaxMinutes :
            (parseInput = formatDuration(minutes) /\ (minutes < 60 \/ minutes % 60 # 0))
                => parsed.value = Int2Num(minutes * 60)

\* an hour is read as nothing
C27_HourLost ==
    /\ parsed # <<>>
    /\ parsed.parser = "parseDuration"
    /\ parseInput = formatDuration(60)
    /\ parseInput = "1 hour"
    /\ parsed.value = Zero


----------------------------------------------------------------------------
(* C30: last-trip.json and all-trips.json agree *)

\* last-trip.json holds the last record of all-trips.json
C30_Agree ==
    /\ lastTripFile.state = "json"
    /\ allTripsFile.state = "json"
    /\ allTripsFile.content # <<>>
    /\ lastTripFile.content = <<allTripsFile.content[Len(allTripsFile.content)]>>

\* C30: after every request, answered with success or with failure, once a
\* trip has been saved the record of last-trip.json is the last entry of
\* all-trips.json
C30_FilesAgree ==
    ((\E r \in RequestIds : requests[r].result # "")
        /\ (lastTripFile # AbsentFile \/ allTripsFile # AbsentFile)) => C30_Agree

\* C30, for the requests answered with success: right after the answer the two
\* files agree
C30_FilesAgreeAfterSuccess ==
    [][(\E r \in RequestIds : requests[r].result = "" /\ requests'[r].result = "success")
        => C30_Agree']_vars

\* a request was answered with failure, and last-trip.json holds its record,
\* which all-trips.json does not
C30_LastTripAhead ==
    /\ \E r \in RequestIds :
        /\ requests[r].result = "failed"
        /\ lastTripFile.state = "json"
        /\ lastTripFile.content[1].tripTimestamp = now
        /\ lastTripFile.content[1].cost = requests[r].body.cost
    /\ allTripsFile = JsonFile(<<EarlierTrip>>)


----------------------------------------------------------------------------
(* C21: the eco-friendly flag of the options *)

\* the options of the present render
C21_Options ==
    transportOptions(selectedCar, carsDatabase, routeInfo, calculatedDurations, calculatedCosts)

\* C21: the driving option is flagged eco-friendly exactly when the selected
\* car's fuel type is Hybrid, Plug-in Hybrid Electric Vehicle or Battery
\* Electric Vehicle, and the transit and walking options always are
C21_EcoFriendly ==
    /\ C21_Options["DRIVING"].isEcoFriendly =
            (/\ selectedCar # 0
             /\ carsDatabase[selectedCar].fuelType \in
                    {"Hybrid", "Plug-in Hybrid Electric Vehicle", "Battery Electric Vehicle"})
    /\ C21_Options["TRANSIT"].isEcoFriendly
    /\ C21_Options["WALKING"].isEcoFriendly

\* the options are shown for a battery electric car and a route
C21_WitnessElectric ==
    /\ showOptions
    /\ routeInfo # <<>>
    /\ selectedCar # 0
    /\ carsDatabase[selectedCar].fuelType = "Battery Electric Vehicle"
    /\ C21_Options["DRIVING"].isEcoFriendly


----------------------------------------------------------------------------
(* C25: the labels of the options are computed or "N/A" *)

\* the cost the driving option computes from the present route and car
C25_DrivingCost ==
    IF routeInfo # <<>>
    THEN {calculateCarCost(selectedCar, carsDatabase, ParseFloat(routeInfo[1].distance))}
    ELSE {}

\* the emissions the driving option computes from the present route and car
C25_DrivingEmissions ==
    IF selectedCar # 0 /\ routeInfo # <<>>
    THEN {calculateRealEmissions(carsDatabase[selectedCar].fuelType,
            carsDatabase[selectedCar].marketSegment, ParseFloat(routeInfo[1].distance))}
    ELSE {}

\* the fare the search computed from the transit route
C25_TransitCost ==
    IF "TRANSIT" \in DOMAIN calculatedCosts THEN {calculatedCosts["TRANSIT"]} ELSE {}

\* C25: in every state of the planner that shows the options, the cost and
\* emission labels of the driving option and the cost label of the transit
\* option are the value computed from the present route and car, or "N/A"
C25_ComputedOrUnavailable ==
    showOptions =>
    /\ C21_Options["DRIVING"].cost \in C25_DrivingCost \cup {"N/A"}
    /\ C21_Options["DRIVING"].emissions \in C25_DrivingEmissions \cup {"N/A"}
    /\ C21_Options["TRANSIT"].cost \in C25_TransitCost \cup {"N/A"}


----------------------------------------------------------------------------
(* C28: the route after the callbacks *)

\* no search runs and no callback of calculateRoute is due
C28_Settled ==
    /\ searching = <<>>
    /\ pendingRoutes = <<>>

\* the route of the selected option's travel mode
C28_RouteOfSelected ==
    newRouteInfo(selectedTransportOption[1].travelMode, selectedTransportOption[1].type,
                 DirectionsLeg(selectedTransportOption[1].travelMode))

\* C28: once every callback has arrived, in whatever order, the routeInfo of a
\* planner with a selected option is the route of that option's travel mode
C28_RouteMatchesSelection ==
    (C28_Settled /\ selectedTransportOption # <<>> /\ routeInfo # <<>>)
        => routeInfo = <<C28_RouteOfSelected>>


----------------------------------------------------------------------------
(* C29: the record and the labels of the confirmed option *)

\* the option of the selected travel mode as the present render shows it
C29_ShownOption == C21_Options[selectedTransportOption[1].travelMode]

\* request r is sent in this step
C29_Sent(r) ==
    /\ requests[r].client = "idle"
    /\ requests'[r].client = "waiting"

\* C29: the cost and co2Emissions of a record sent by Let's Ride are the cost
\* label and the emissions label that the option of the selected travel mode
\* shows for the car and route of that moment
C29_RecordMatchesLabels ==
    [][\A r \in RequestIds :
        C29_Sent(r) =>
            /\ requests'[r].body.cost = C29_ShownOption.cost
            /\ requests'[r].body.co2Emissions = C29_ShownOption.emissions]_vars


----------------------------------------------------------------------------
(* C26: saved trips reach the dashboard *)

\* the dashboard has loaded a snapshot that holds the record of request r
C26_Visible(r) ==
    IF requests[r].body = <<>> THEN FALSE
    ELSE /\ loaded
         /\ \E i \in DOMAIN trips :
                trips[i] = [requests[r].body EXCEPT !.tripTimestamp = trips[i].tripTimestamp]

\* C26: the record of every request that was answered with success is, at some
\* later time, in a snapshot the dashboard has loaded
C26_EventuallyVisible ==
    \A r \in RequestIds : (requests[r].result = "success") ~> C26_Visible(r)

=============================================================================
